---------------------------- MODULE Spec2Model ----------------------------
(***************************************************************************)
(* GB-finance: the financial aggregation and reconciliation logic of the   *)
(* dashboard, the reports page, the 7-day chart and the expense forms,     *)
(* modelled from the page components under src/.                           *)
(*                                                                         *)
(* The hosted store (Supabase) is an external collaborator: its tables are *)
(* sequences of rows, a query answers either with the matching rows or     *)
(* with an error (data = null).                                            *)
(***************************************************************************)
EXTENDS Integers, Sequences, FiniteSets, TLC

VARIABLES
    today,                 \* the wall clock's calendar day (new Date()), a day number
    sales,                 \* table 'sales'
    expense_transactions,  \* table 'expense_transactions'
    expenses,              \* table 'expenses' (one row per line item)
    rep_pc,                \* Reports.fetchReports: position in the async function
    salesDataForMonth,     \* Reports.fetchReports: response of the monthly sales query
    expensesDataForMonth,  \* Reports.fetchReports: response of the monthly expenses query
    monthlySummary,        \* Reports state: <<>> (null) or <<summary>>
    allTransactions,       \* Reports state: rows of the transaction table
    rep_loadingData,       \* Reports state: loadingData
    dash_version,          \* which Dashboard component is mounted
    dash_pc,               \* Dashboard.fetchFinancialData: position in the async function
    dash_salesData,        \* Dashboard.fetchFinancialData: response of the sales query
    dash_expensesData,     \* Dashboard.fetchFinancialData: response of the expenses query
    summary,               \* Dashboard state: <<>> (null) or <<summary>>
    dash_loadingData,      \* Dashboard state: loadingData
    displayName,           \* Dashboard state (Dashboard.tsx): displayName
    isNewUser,             \* Dashboard state (part_002): isNewUser
    chart_pc,              \* DashboardChart.fetchChartData: position in the async function
    sevenDaysAgo,          \* DashboardChart.fetchChartData: lower bound of the two queries
    chart_salesData,       \* DashboardChart.fetchChartData: response of the sales query
    chart_expensesData,    \* DashboardChart.fetchChartData: response of the expenses query
    referenceDate,         \* DashboardChart.fetchChartData: new Date() of the scaffold loop
    chartData,             \* DashboardChart state: the day-bucket series
    loadingChart,          \* DashboardChart state: loadingChart
    form_page,             \* the expense form mounted: "add", "edit.first", "edit.second"
    form_pc,               \* the mounted form's position: fetching, editing, submitting, left
    add_items,             \* AddExpense form values: items
    payment_mode,          \* form value payment_mode of the mounted form
    edit_id,               \* EditExpense: the route's id
    edit_values,           \* EditExpense form values: unit, price_per_unit, total
    request,               \* insert/update sent to the store and not yet answered
    lastEvent,             \* the event the mounted form handled last
    route,                 \* App.tsx: the path whose page is mounted
    expense_items,         \* table 'expense_items'
    import_pc,             \* DataImport.handleImportData: position in the async function
    importData,            \* DataImport.handleImportData: the parsed file
    import_toast,          \* DataImport: the toast shown last ("" for none)
    transactionTypeFilter, \* Reports state: 'all', 'sale' or 'expense'
    salesDataForTable,     \* Reports.fetchReports: response of the table's sales query
    transactionsDataForTable, \* Reports.fetchReports: response of the table's expenses query
    rep_deleting,          \* Reports.handleDelete: the delete in flight, <<>> for none
    sale_values,           \* AddSale form values: date, amount
    salesByCategory,       \* Dashboard (second component): [category, amount] entries
    import_ui,             \* DataImport: the loading toast (toastId) and the file input's value
    auth_session,          \* the auth service: <<>> (signed out) or <<user id>>
    session,               \* SupabaseSessionProvider state: session
    user,                  \* SupabaseSessionProvider state: user
    profile,               \* SupabaseSessionProvider state: profile, <<>> for null
    isLoading,             \* SupabaseSessionProvider state: isLoading
    fetchSessionAndProfile, \* SupabaseSessionProvider: position in the async function
    profileRequests,       \* onAuthStateChange: users whose profile query is in flight
    profiles,              \* table 'profiles': the names stored for each user
    guard_version,         \* which ProtectedRoute component the routes use
    onboardingCompleted,   \* ProtectedRoute state: onboardingCompleted
    checkingOnboarding,    \* ProtectedRoute state: checkingOnboarding
    guard_deps,            \* ProtectedRoute: the dependencies its effect last ran with
    userPreferences,       \* localStorage item 'userPreferences', <<>> when absent
    handleComplete,        \* Onboarding.handleComplete: position in the async function
    salePaymentTypeFilter, \* Reports.tsx state: salePaymentTypeFilter
    searchTerm,            \* Reports.tsx state: searchTerm (the input's value)
    debouncedSearchTerm,   \* Reports.tsx state: debouncedSearchTerm
    fetchReports,          \* Reports.tsx: the calls of fetchReports in flight, oldest first
    reports_sales,         \* Reports.tsx state: sales
    reports_expenses,      \* Reports.tsx state: expenses
    currentMonthFilteredExpenseTotal, \* Reports.tsx state
    reports_loadingData,   \* Reports.tsx state: loadingData
    reports_errorShown,    \* Reports.tsx: showError has been called by a fetch
    edit_image             \* EditExpense: selectedFile, existingImageUrl, form value bill_image_url

storeVars == <<today, sales, expense_transactions, expenses>>
reportsVars == <<rep_pc, salesDataForMonth, expensesDataForMonth, monthlySummary,
                 allTransactions, rep_loadingData>>
dashVars == <<dash_version, dash_pc, dash_salesData, dash_expensesData, summary,
              dash_loadingData, displayName, isNewUser, salesByCategory>>

chartVars == <<chart_pc, sevenDaysAgo, chart_salesData, chart_expensesData, referenceDate,
               chartData, loadingChart>>

formVars == <<form_page, form_pc, add_items, payment_mode, edit_id, edit_values, request,
              lastEvent>>

importVars == <<import_pc, importData, import_toast, import_ui>>

\* The route, the items table and the components that read or write it.
tableVars == <<transactionTypeFilter, salesDataForTable, transactionsDataForTable,
               rep_deleting>>

providerVars == <<auth_session, session, user, profile, isLoading, fetchSessionAndProfile,
                  profileRequests, profiles>>
guardState == <<onboardingCompleted, checkingOnboarding, guard_deps>>
guardVars == <<guard_version, guardState>>
sessionVars == <<providerVars, guardVars, userPreferences, handleComplete>>
filterVars == <<salePaymentTypeFilter, searchTerm, debouncedSearchTerm, fetchReports,
                reports_sales, reports_expenses, currentMonthFilteredExpenseTotal, reports_loadingData,
                reports_errorShown>>
moreVars == <<route, expense_items, importVars, tableVars, sale_values, sessionVars,
              filterVars, edit_image>>

vars == <<storeVars, reportsVars, dashVars, chartVars, formVars, moreVars>>

\* What the steps of one component leave alone.
notReports == <<storeVars, dashVars, chartVars, formVars, moreVars>>
notDashboard == <<storeVars, reportsVars, chartVars, formVars, moreVars>>
notChart == <<reportsVars, dashVars, formVars, moreVars>>
notForms == <<today, sales, expense_transactions, reportsVars, dashVars, chartVars, moreVars>>
notImport == <<today, expenses, reportsVars, dashVars, chartVars, formVars, route, tableVars,
               sale_values, sessionVars, filterVars, edit_image>>
notTable == <<today, expenses, dashVars, chartVars, formVars, route, importVars, sale_values,
            sessionVars, filterVars, edit_image>>
notSale == <<today, expense_transactions, expenses, reportsVars, dashVars, chartVars, route,
             expense_items, importVars, tableVars, sessionVars, filterVars, edit_image>>
notSession == <<storeVars, reportsVars, dashVars, chartVars, formVars, expense_items,
               importVars, tableVars, sale_values, filterVars, edit_image>>
notFilters == <<storeVars, reportsVars, dashVars, chartVars, formVars, route, expense_items,
               importVars, tableVars, sale_values, sessionVars, edit_image>>
notEditImage == <<today, sales, expense_transactions, reportsVars, dashVars, chartVars, route,
                 expense_items, importVars, tableVars, sale_values, sessionVars,
                 filterVars>>

(***************************************************************************)
(* Bounds of the model.                                                    *)
(***************************************************************************)
MaxRows == 2        \* rows held by the tables a specification draws
MaxAmount == 2      \* amounts, units and prices range over 1..MaxAmount
MaxTicks == 1       \* midnights the clock passes while a specification runs
MaxItems == 2       \* items the add-expense form holds
MaxFetches == 2     \* calls of Reports.fetchReports in flight at once

(***************************************************************************)
(* Calendar.  A Date object is a day number; the modelled days run from    *)
(* Dec 24 2024 (day 1) to Jan 8 2025 (day 16), so that a 7-day window can  *)
(* cross a month and a year boundary.  A 'yyyy-MM-dd' string is the tuple  *)
(* <<year, month, day>>, a 'MMM dd' string the tuple <<month, day>>.       *)
(***************************************************************************)
Days == 1..16

FormatISO(n) == IF n <= 8 THEN <<2024, 12, 23 + n>> ELSE <<2025, 1, n - 8>>

\* String comparison of two 'yyyy-MM-dd' values, as the store's gte/lte do.
IsoLeq(a, b) ==
    \/ a[1] < b[1]
    \/ a[1] = b[1] /\ a[2] < b[2]
    \/ a[1] = b[1] /\ a[2] = b[2] /\ a[3] <= b[3]

subDays(n, k) == n - k

\* new Date(year, month, 1) and new Date(year, month + 1, 0), formatted.
StartOfMonth(year, month) == <<year, month, 1>>
EndOfMonth(year, month) == <<year, month, 31>>

getFullYear(n) == FormatISO(n)[1]
getMonth(n) == FormatISO(n)[2]

(***************************************************************************)
(* Rows and queries.                                                       *)
(***************************************************************************)
Users == {"u1", "u2"}
CurrentUser == "u1"
PaymentMethods == {"Cash", "Gpay", "Card"}
Amounts == 1..MaxAmount

SeqsUpTo(S, n) == UNION {[1..k -> S] : k \in 0..n}

\* A query's answer: { data, error }.  data is null exactly when ok is FALSE.
Answer(ok, rows) == [ok |-> ok, data |-> IF ok THEN rows ELSE <<>>]
NoAnswer == [ok |-> FALSE, data |-> <<>>]

RECURSIVE Reduce_SeedOne(_)
Reduce_SeedOne(nums) ==
    IF nums = <<>> THEN 1
    ELSE Reduce_SeedOne(SubSeq(nums, 1, Len(nums) - 1)) + nums[Len(nums)]

\* Array.reduce((sum, x) => sum + x, 0) over a sequence of numbers.
RECURSIVE Reduce(_)
Reduce(nums) ==
    IF nums = <<>> THEN 0
    ELSE Reduce(SubSeq(nums, 1, Len(nums) - 1)) + nums[Len(nums)]

AmountsOf(rows) == [i \in DOMAIN rows |-> rows[i].amount]
GrandTotalsOf(rows) == [i \in DOMAIN rows |-> rows[i].grand_total]


\* Array.sort with a comparator on the rows' date, descending; the sort is stable.
InsertByDateDesc(sorted, row) ==
    LET keep == {i \in DOMAIN sorted : IsoLeq(row.date, sorted[i].date)}
        k == Cardinality(keep)
    IN  SubSeq(sorted, 1, k) \o <<row>> \o SubSeq(sorted, k + 1, Len(sorted))

RECURSIVE SortByDateDesc(_)
SortByDateDesc(rows) ==
    IF rows = <<>> THEN <<>>
    ELSE InsertByDateDesc(SortByDateDesc(SubSeq(rows, 1, Len(rows) - 1)), rows[Len(rows)])

(***************************************************************************)
(* Dashboard: the all-time totals.  Two of the repository's Dashboard       *)
(* components are modelled: src/pages/Dashboard.tsx (first component of the *)
(* file), which returns on a query error, and part_002, which aggregates    *)
(* over (data || []).  The second component of src/pages/Dashboard.tsx,     *)
(* "Dashboard.second", groups the sales by category, reads its expenses     *)
(* from table 'expenses' and returns on a query error without               *)
(* setLoadingData(false).                                                   *)
(***************************************************************************)
DashboardVersions == {"Dashboard.tsx", "part_002"}

SalesOfUser_AllUsers(userId) == sales

\* from('sales').select('amount').eq('user_id', userId)
SalesOfUser(userId) == SelectSeq(sales, LAMBDA s : s.user_id = userId)

\* from('expense_transactions').select('grand_total').eq('user_id', userId)
ExpenseTransactionsOfUser(userId) ==
    SelectSeq(expense_transactions, LAMBDA e : e.user_id = userId)

\* from('expenses').select('total').eq('user_id', userId)
ExpensesOfUser(userId) == SelectSeq(expenses, LAMBDA e : e.user_id = userId)

DashboardTotalSales_LastOnly(data) == IF data = <<>> THEN 0 ELSE data[Len(data)].amount

\* salesData.reduce((sum, sale) => sum + (sale.amount || 0), 0)
DashboardTotalSales(data) == Reduce(AmountsOf(data))

\* categoryMap after salesData.forEach: the entries in insertion order.  An
\* entry is created by the first row of its category and added to by the
\* later ones.
RECURSIVE CategoryMap_Overwrite(_)
CategoryMap_Overwrite(data) ==
    IF data = <<>> THEN <<>>
    ELSE LET map == CategoryMap_Overwrite(SubSeq(data, 1, Len(data) - 1))
             sale == data[Len(data)]
             at == {i \in DOMAIN map : map[i].category = sale.category}
         IN  IF at = {}
             THEN Append(map, [category |-> sale.category, amount |-> sale.amount])
             ELSE [i \in DOMAIN map |->
                     IF i \in at THEN [map[i] EXCEPT !.amount = sale.amount] ELSE map[i]]

RECURSIVE CategoryMap(_)
CategoryMap(data) ==
    IF data = <<>> THEN <<>>
    ELSE LET map == CategoryMap(SubSeq(data, 1, Len(data) - 1))
             sale == data[Len(data)]
             at == {i \in DOMAIN map : map[i].category = sale.category}
         IN  IF at = {}
             THEN Append(map, [category |-> sale.category, amount |-> 0 + sale.amount])
             ELSE [i \in DOMAIN map |->
                     IF i \in at THEN [map[i] EXCEPT !.amount = @ + sale.amount]
                     ELSE map[i]]

\* expensesData.reduce((sum, expense) => sum + (expense.grand_total || 0), 0)
DashboardTotalExpenses(data) == Reduce(GrandTotalsOf(data))

Profit_Clamped(totalSales, totalExpenses) ==
    IF totalSales < totalExpenses THEN 0 ELSE totalSales - totalExpenses

\* profit: totalSales - totalExpenses
Profit(totalSales, totalExpenses) == totalSales - totalExpenses

\* The object handed to setSummary.
SummaryOf(salesRows, expenseRows) ==
    LET totalSales == DashboardTotalSales(salesRows)
        totalExpenses == DashboardTotalExpenses(expenseRows)
    IN  [totalSales |-> totalSales,
         totalExpenses |-> totalExpenses,
         profit |-> Profit(totalSales, totalExpenses)]

\* The object handed to setSummary by Dashboard.second:
\* expensesData.reduce((sum, expense) => sum + (expense.total || 0), 0)
SummaryOfExpenses(salesRows, expenseRows) ==
    LET totalSales == DashboardTotalSales(salesRows)
        totalExpenses == Reduce([i \in DOMAIN expenseRows |-> expenseRows[i].total])
    IN  [totalSales |-> totalSales,
         totalExpenses |-> totalExpenses,
         profit |-> Profit(totalSales, totalExpenses)]

DashboardIdle ==
    /\ dash_version = "Dashboard.tsx"
    /\ dash_pc = "idle"
    /\ dash_salesData = NoAnswer
    /\ dash_expensesData = NoAnswer
    /\ summary = <<>>
    /\ dash_loadingData = TRUE
    /\ displayName = "Guest"
    /\ isNewUser = FALSE
    /\ salesByCategory = <<>>

\* useEffect: if (user) fetchFinancialData(); setLoadingData(true) and the
\* first query is sent (the profile query in Dashboard.tsx, the sales query
\* in part_002).
Dashboard_fetchFinancialData ==
    /\ route = "/"
    /\ dash_pc = "idle"
    /\ dash_loadingData' = TRUE
    /\ dash_pc' = IF dash_version = "Dashboard.tsx" THEN "profile" ELSE "sales"
    /\ UNCHANGED <<dash_version, dash_salesData, dash_expensesData, summary, displayName,
                   isNewUser, salesByCategory>>
    /\ UNCHANGED notDashboard

\* Dashboard.tsx: the profile query answers; the sales query is sent.
Dashboard_profileAnswer ==
    /\ dash_pc = "profile"
    /\ \E name \in {"name", "email"} : displayName' = name
    /\ dash_pc' = "sales"
    /\ UNCHANGED <<dash_version, dash_salesData, dash_expensesData, summary,
                   dash_loadingData, isNewUser, salesByCategory>>
    /\ UNCHANGED notDashboard

\* The sales query answers.  Dashboard.tsx returns on an error, after
\* setLoadingData(false); part_002 goes on with (salesData || []);
\* Dashboard.second returns on an error and otherwise sets the grouping.
Dashboard_salesAnswer ==
    /\ dash_pc = "sales"
    /\ \E ok \in BOOLEAN :
         /\ dash_salesData' = Answer(ok, SalesOfUser(CurrentUser))
         /\ CASE dash_version = "Dashboard.tsx" /\ ~ok ->
                    dash_loadingData' = FALSE /\ dash_pc' = "done"
              [] dash_version = "Dashboard.second" /\ ~ok ->
                    dash_loadingData' = dash_loadingData /\ dash_pc' = "done"
              [] OTHER ->
                    dash_loadingData' = dash_loadingData /\ dash_pc' = "expenses"
         /\ salesByCategory' = IF dash_version = "Dashboard.second" /\ ok
                               THEN CategoryMap(dash_salesData'.data)
                               ELSE salesByCategory
    /\ UNCHANGED <<dash_version, dash_expensesData, summary, displayName, isNewUser>>
    /\ UNCHANGED notDashboard

\* The expenses query answers.  Dashboard.tsx returns on an error, after
\* setLoadingData(false); otherwise the summary is set from the two results
\* (in part_002: from (data || []) of each).  Dashboard.second queries
\* table 'expenses' and sums its column total; on an error it returns.
Dashboard_expensesAnswer ==
    /\ dash_pc = "expenses"
    /\ \E ok \in BOOLEAN :
         /\ dash_expensesData' =
              Answer(ok, IF dash_version = "Dashboard.second"
                         THEN ExpensesOfUser(CurrentUser)
                         ELSE ExpenseTransactionsOfUser(CurrentUser))
         /\ IF dash_version \in {"Dashboard.tsx", "Dashboard.second"} /\ ~ok
            THEN UNCHANGED <<summary, isNewUser>>
            ELSE LET next == IF dash_version = "Dashboard.second"
                             THEN SummaryOfExpenses(dash_salesData.data,
                                                    dash_expensesData'.data)
                             ELSE SummaryOf(dash_salesData.data, dash_expensesData'.data)
                 IN  /\ summary' = <<next>>
                     /\ isNewUser' = IF dash_version = "part_002"
                                        /\ next.totalSales = 0 /\ next.totalExpenses = 0
                                     THEN TRUE ELSE isNewUser
         /\ dash_loadingData' = IF dash_version = "Dashboard.second" /\ ~ok
                                THEN dash_loadingData ELSE FALSE
    /\ dash_pc' = "done"
    /\ UNCHANGED <<dash_version, dash_salesData, displayName, salesByCategory>>
    /\ UNCHANGED notDashboard

\* Rows of the two tables the dashboard reads: the current user's and
\* another user's.
DashboardSaleRows ==
    [user_id : Users, date : {FormatISO(9)}, amount : Amounts, payment_type : {"Cash"}]

DashboardExpenseRows ==
    [user_id : Users, date : {FormatISO(9)}, grand_total : Amounts, payment_mode : {"Cash"}]

(***************************************************************************)
(* DashboardChart: the day-bucket series of the last 7 days.               *)
(***************************************************************************)
WindowDays == 7

\* format(parseISO(date), 'MMM dd')
FormatMMMdd(iso) == <<iso[2], iso[3]>>

\* parseISO(str).getTime(): a 'yyyy-MM-dd' string parses to a time, a
\* 'MMM dd' string to an Invalid Date, whose time is NaN.
parseISO(str) ==
    IF Len(str) = 3
    THEN [isNaN |-> FALSE, time |-> (str[1] * 12 + str[2]) * 31 + str[3]]
    ELSE [isNaN |-> TRUE, time |-> 0]

CompareParsedDates_ByLabel(a, b) == (a.date[1] * 31 + a.date[2]) - (b.date[1] * 31 + b.date[2])

\* (a, b) => parseISO(a.date).getTime() - parseISO(b.date).getTime(); a NaN
\* result counts as +0 in Array.sort.
CompareParsedDates(a, b) ==
    LET ta == parseISO(a.date)
        tb == parseISO(b.date)
    IN  IF ta.isNaN \/ tb.isNaN THEN 0 ELSE ta.time - tb.time

\* Array.sort(CompareParsedDates), a stable sort.
InsertSorted(sorted, entry) ==
    LET after == {i \in DOMAIN sorted : CompareParsedDates(sorted[i], entry) <= 0}
        k == IF after = {} THEN 0 ELSE CHOOSE i \in after : \A j \in after : j <= i
    IN  SubSeq(sorted, 1, k) \o <<entry>> \o SubSeq(sorted, k + 1, Len(sorted))

RECURSIVE SortChartData(_)
SortChartData(entries) ==
    IF entries = <<>> THEN <<>>
    ELSE InsertSorted(SortChartData(SubSeq(entries, 1, Len(entries) - 1)),
                      entries[Len(entries)])

\* from('sales').select('date, amount').eq('user_id', userId).gte('date', from)
SalesSince(userId, from) ==
    SelectSeq(sales, LAMBDA s : s.user_id = userId /\ IsoLeq(from, s.date))

\* from('expenses').select('date, total').eq('user_id', userId).gte('date', from)
ExpensesSince(userId, from) ==
    SelectSeq(expenses, LAMBDA e : e.user_id = userId /\ IsoLeq(from, e.date))

\* The scaffold: dailyMap after the loop, in insertion order.
DailyMapScaffold(now) ==
    [i \in 1..WindowDays |->
        [date |-> FormatISO(subDays(now, WindowDays - i)), sales |-> 0, expenses |-> 0]]

AddSaleToMap_UpToDate(dailyMap, sale) ==
    [i \in DOMAIN dailyMap |->
        IF IsoLeq(dailyMap[i].date, sale.date)
        THEN [dailyMap[i] EXCEPT !.sales = @ + sale.amount]
        ELSE dailyMap[i]]

\* if (dailyMap.has(date)) dailyMap.get(date).sales += sale.amount
AddSaleToMap(dailyMap, sale) ==
    [i \in DOMAIN dailyMap |->
        IF dailyMap[i].date = sale.date
        THEN [dailyMap[i] EXCEPT !.sales = @ + sale.amount]
        ELSE dailyMap[i]]

\* if (dailyMap.has(date)) dailyMap.get(date).expenses += expense.total
AddExpenseToMap(dailyMap, expense) ==
    [i \in DOMAIN dailyMap |->
        IF dailyMap[i].date = expense.date
        THEN [dailyMap[i] EXCEPT !.expenses = @ + expense.total]
        ELSE dailyMap[i]]

\* salesData.forEach(...)
RECURSIVE FoldSales(_, _)
FoldSales(dailyMap, rows) ==
    IF rows = <<>> THEN dailyMap
    ELSE FoldSales(AddSaleToMap(dailyMap, Head(rows)), Tail(rows))

\* expensesData.forEach(...)
RECURSIVE FoldExpenses(_, _)
FoldExpenses(dailyMap, rows) ==
    IF rows = <<>> THEN dailyMap
    ELSE FoldExpenses(AddExpenseToMap(dailyMap, Head(rows)), Tail(rows))

\* formattedData: the map's entries relabelled 'MMM dd', then sorted.
FormattedData(now, salesRows, expenseRows) ==
    LET dailyMap == FoldExpenses(FoldSales(DailyMapScaffold(now), salesRows), expenseRows)
    IN  SortChartData([i \in DOMAIN dailyMap |->
                          [date |-> FormatMMMdd(dailyMap[i].date),
                           sales |-> dailyMap[i].sales,
                           expenses |-> dailyMap[i].expenses]])

ChartIdle ==
    /\ chart_pc = "idle"
    /\ sevenDaysAgo = FormatISO(1)
    /\ chart_salesData = NoAnswer
    /\ chart_expensesData = NoAnswer
    /\ referenceDate = 1
    /\ chartData = <<>>
    /\ loadingChart = TRUE

\* useEffect: if (user) fetchChartData(); setLoadingChart(true), sevenDaysAgo
\* is taken from the clock and the sales query is sent.
Chart_fetchChartData ==
    /\ route = "/"
    /\ chart_pc = "idle"
    /\ loadingChart' = TRUE
    /\ sevenDaysAgo' = FormatISO(subDays(today, 6))
    /\ chart_pc' = "sales"
    /\ UNCHANGED <<chart_salesData, chart_expensesData, referenceDate, chartData>>
    /\ UNCHANGED <<storeVars, notChart>>

\* The sales query answers; on an error the function returns.
Chart_salesAnswer ==
    /\ chart_pc = "sales"
    /\ \E ok \in BOOLEAN :
         /\ chart_salesData' = Answer(ok, SalesSince(CurrentUser, sevenDaysAgo))
         /\ IF ok
            THEN chart_pc' = "expenses" /\ loadingChart' = loadingChart
            ELSE chart_pc' = "done" /\ loadingChart' = FALSE
    /\ UNCHANGED <<sevenDaysAgo, chart_expensesData, referenceDate, chartData>>
    /\ UNCHANGED <<storeVars, notChart>>

\* The expenses query answers; on an error the function returns, otherwise
\* the series is built from the clock's day at that moment and set.  The
\* synchronous loop's seven reads of the clock fall on one calendar day.
Chart_expensesAnswer ==
    /\ chart_pc = "expenses"
    /\ \E ok \in BOOLEAN :
         /\ chart_expensesData' = Answer(ok, ExpensesSince(CurrentUser, sevenDaysAgo))
         /\ IF ok
            THEN /\ referenceDate' = today
                 /\ chartData' = FormattedData(today, chart_salesData.data,
                                               chart_expensesData'.data)
            ELSE UNCHANGED <<referenceDate, chartData>>
    /\ loadingChart' = FALSE
    /\ chart_pc' = "done"
    /\ UNCHANGED <<sevenDaysAgo, chart_salesData>>
    /\ UNCHANGED <<storeVars, notChart>>

\* Midnight passes.
ClockTick ==
    /\ today < 9 + MaxTicks
    /\ today' = today + 1
    /\ UNCHANGED <<sales, expense_transactions, expenses>>
    /\ UNCHANGED <<reportsVars, dashVars, chartVars, formVars, moreVars>>

\* Rows of the two tables the chart reads: dated before the window, on its
\* first day, inside it, on the reference day and after it; another user's
\* rows beside the current user's.
ChartDates == {FormatISO(2), FormatISO(3), FormatISO(8), FormatISO(9), FormatISO(10)}

ChartSaleRows ==
    {r \in [user_id : Users, date : ChartDates, amount : Amounts, payment_type : {"Cash"}] :
        r.user_id = CurrentUser \/ r.date = FormatISO(9)}

ChartExpenseRows ==
    {r \in [user_id : Users, date : ChartDates, total : Amounts] :
        r.user_id = CurrentUser \/ r.date = FormatISO(9)}

(***************************************************************************)
(* Expense forms: AddExpense (src/pages/AddExpense.tsx) and the two        *)
(* EditExpense components of src/pages/EditExpense.tsx.  One form is       *)
(* mounted at a time.  A field's value is its text: what was typed, or the *)
(* text of the number that form.reset or setValue put there.  item_name,   *)
(* date and note of the expense forms are always valid and are left out;   *)
(* the bill image is not part of this section.                             *)
(***************************************************************************)
\* What is typed into unit (and into amount): nothing, a text that is no
\* number, a negative number, zero, the positive numbers.
FormValues == {"", "abc"} \cup {ToString(n) : n \in -1..MaxAmount}

\* What is typed into price_per_unit.
PriceValues == {"0", "abc", ToString(MaxAmount)}

\* Number(value): the number a field's text converts to; '' is 0, a text
\* that is no numeral is NaN.
Number(text) ==
    LET numbers == (0 - MaxAmount)..(MaxAmount * MaxAmount)
    IN  IF text = "" THEN [isNaN |-> FALSE, n |-> 0]
        ELSE IF \E n \in numbers : ToString(n) = text
        THEN [isNaN |-> FALSE, n |-> CHOOSE n \in numbers : ToString(n) = text]
        ELSE [isNaN |-> TRUE, n |-> 0]

LineTotal_Sum(unit, price_per_unit) == unit + price_per_unit

\* unit * price_per_unit
LineTotal(unit, price_per_unit) == unit * price_per_unit

\* The watch subscription's new total.  AddExpense and the first EditExpense:
\* the product if both are > 0, else 0; the second EditExpense:
\* (unit || 0) * (price || 0).
\* The value of an <input type="number"> after the text was typed: a text
\* that is no number leaves the input's value empty.  With
\* register(..., { valueAsNumber: true }) (first EditExpense component) the
\* field holds the input's valueAsNumber, NaN for an empty value.
InputValue(page, typed) ==
    IF typed # "" /\ ~Number(typed).isNaN THEN typed
    ELSE IF page = "edit.first" THEN "NaN" ELSE ""

WatchTotal(page, unit, price_per_unit) ==
    LET u == Number(unit)
        p == Number(price_per_unit)
    IN  IF page = "edit.second"
        THEN IF u.isNaN \/ p.isNaN THEN "NaN" ELSE ToString(LineTotal(u.n, p.n))
        ELSE IF ~u.isNaN /\ ~p.isNaN /\ u.n > 0 /\ p.n > 0
             THEN ToString(LineTotal(u.n, p.n))
             ELSE "0"

Positive_NonNegative(text) == ~Number(text).isNaN /\ Number(text).n >= 0

\* z.preprocess((val) => Number(val), z.number().positive(...))
Positive(text) == ~Number(text).isNaN /\ Number(text).n > 0

\* The resolver's errors of one item: the paths of its fields that fail.
FieldErrors(item, index) ==
    {<<index, f>> : f \in {f \in {"unit", "price_per_unit", "total"} : ~Positive(item[f])}}

ItemValid(item) == FieldErrors(item, 0) = {}

\* formSchema of AddExpense: items valid, at least one item, payment_mode chosen.
AddFormValid ==
    /\ Len(add_items) >= 1
    /\ \A i \in DOMAIN add_items : ItemValid(add_items[i])
    /\ payment_mode # ""

\* formSchema of EditExpense.
EditFormValid == ItemValid(edit_values) /\ payment_mode # ""

DefaultItem == [unit |-> "0", price_per_unit |-> "0", total |-> "0"]

NoEvent == [kind |-> "none", index |-> 0]

\* EditExpense image state at mount: selectedFile and existingImageUrl null
\* (<<>>), the form's bill_image_url "".  filePreviewUrl is set and cleared
\* together with selectedFile and is not held apart.  removed records that
\* the remove button has been clicked.
NoImage == [selectedFile |-> <<>>, existingImageUrl |-> <<>>, bill_image_url |-> "",
            removed |-> FALSE]

FormsIdle ==
    /\ form_page = "none"
    /\ form_pc = "left"
    /\ add_items = <<DefaultItem>>
    /\ payment_mode = ""
    /\ edit_id = 0
    /\ edit_values = DefaultItem
    /\ edit_image = NoImage
    /\ request = <<>>
    /\ lastEvent = NoEvent

\* A change event of items.<index>.<field>, and the watch callback it fires.
ChangeItem(item, field, value) ==
    LET typed == IF field = "unit"
                 THEN [item EXCEPT !.unit = InputValue(form_page, value)]
                 ELSE [item EXCEPT !.price_per_unit = InputValue(form_page, value)]
    IN  [typed EXCEPT !.total = WatchTotal(form_page, typed.unit, typed.price_per_unit)]

AddExpense_change(index, field, value) ==
    /\ form_page = "add" /\ form_pc = "editing"
    /\ index \in DOMAIN add_items
    /\ add_items[index][field] # InputValue(form_page, value)
    /\ add_items' = [add_items EXCEPT ![index] = ChangeItem(@, field, value)]
    /\ lastEvent' = [kind |-> "change", index |-> index]
    /\ UNCHANGED <<form_page, form_pc, payment_mode, edit_id, edit_values, request, expenses>>
    /\ UNCHANGED notForms

\* 'Add Another Item': append({ unit: 0, price_per_unit: 0, total: 0 })
AddExpense_append ==
    /\ form_page = "add" /\ form_pc = "editing"
    /\ Len(add_items) < MaxItems
    /\ add_items' = Append(add_items, DefaultItem)
    /\ lastEvent' = [kind |-> "append", index |-> Len(add_items) + 1]
    /\ UNCHANGED <<form_page, form_pc, payment_mode, edit_id, edit_values, request, expenses>>
    /\ UNCHANGED notForms

AddExpense_remove_Always(index) ==
    /\ form_page = "add" /\ form_pc = "editing"
    /\ index \in DOMAIN add_items
    /\ add_items' = SubSeq(add_items, 1, index - 1)
                        \o SubSeq(add_items, index + 1, Len(add_items))
    /\ lastEvent' = [kind |-> "remove", index |-> index]
    /\ UNCHANGED <<form_page, form_pc, payment_mode, edit_id, edit_values, request, expenses>>
    /\ UNCHANGED notForms

\* The remove button, rendered while fields.length > 1: remove(index)
AddExpense_remove(index) ==
    /\ form_page = "add" /\ form_pc = "editing"
    /\ Len(add_items) > 1
    /\ index \in DOMAIN add_items
    /\ add_items' = SubSeq(add_items, 1, index - 1)
                        \o SubSeq(add_items, index + 1, Len(add_items))
    /\ lastEvent' = [kind |-> "remove", index |-> index]
    /\ UNCHANGED <<form_page, form_pc, payment_mode, edit_id, edit_values, request, expenses>>
    /\ UNCHANGED notForms

\* Select onValueChange: form.setValue("payment_mode", value)
Form_selectPaymentMode(value) ==
    /\ form_page # "none" /\ form_pc = "editing"
    /\ payment_mode # value
    /\ payment_mode' = value
    /\ lastEvent' = [kind |-> "select", index |-> 0]
    /\ UNCHANGED <<form_page, form_pc, add_items, edit_id, edit_values, request, expenses>>
    /\ UNCHANGED notForms

\* form.handleSubmit(onSubmit): the schema is checked; if it passes, onSubmit
\* sends the insert of one row per item.
AddExpense_onSubmit ==
    /\ form_page = "add" /\ form_pc = "editing"
    /\ IF AddFormValid
       THEN /\ request' = <<[op |-> "insert", id |-> 0,
                            rows |-> [i \in DOMAIN add_items |->
                                        [user_id |-> CurrentUser,
                                         unit |-> Number(add_items[i].unit).n,
                                         price_per_unit |->
                                            Number(add_items[i].price_per_unit).n,
                                         total |-> Number(add_items[i].total).n,
                                         payment_mode |-> payment_mode]]]>>
            /\ form_pc' = "submitting"
            /\ lastEvent' = [kind |-> "submit", index |-> 0]
       ELSE /\ UNCHANGED <<request, form_pc>>
            /\ lastEvent' =
                  [kind |-> "rejected", index |-> 0,
                   errors |-> UNION {FieldErrors(add_items[i], i) : i \in DOMAIN add_items}
                                \cup (IF payment_mode = ""
                                      THEN {<<0, "payment_mode">>} ELSE {})]
    /\ UNCHANGED <<form_page, add_items, payment_mode, edit_id, edit_values, expenses>>
    /\ UNCHANGED notForms

\* The insert answers: on success the rows are stored (the store numbers
\* them), the form is reset and the page is left; on an error the form stays.
AddExpense_insertAnswer ==
    /\ form_page = "add" /\ form_pc = "submitting"
    /\ \E ok \in BOOLEAN :
         IF ok
         THEN /\ expenses' = expenses \o
                    [i \in DOMAIN request[1].rows |->
                        [id |-> Len(expenses) + i,
                         user_id |-> request[1].rows[i].user_id,
                         unit |-> request[1].rows[i].unit,
                         price_per_unit |-> request[1].rows[i].price_per_unit,
                         total |-> request[1].rows[i].total,
                         payment_mode |-> request[1].rows[i].payment_mode]]
              /\ add_items' = <<DefaultItem>>
              /\ payment_mode' = ""
              /\ form_pc' = "left"
              /\ lastEvent' = [kind |-> "saved", index |-> 0]
         ELSE /\ UNCHANGED <<expenses, add_items, payment_mode>>
              /\ form_pc' = "editing"
              /\ lastEvent' = [kind |-> "failed", index |-> 0]
    /\ request' = <<>>
    /\ UNCHANGED <<form_page, edit_id, edit_values>>
    /\ UNCHANGED notForms

\* from('expenses').select('*').eq('id', id).eq('user_id', user.id).single()
ExpenseById(id, userId) == SelectSeq(expenses, LAMBDA e : e.id = id /\ e.user_id = userId)

\* supabase.storage.getPublicUrl(filePath) of a file uploaded by onSubmit.
UploadedUrl == "https://store/bill_images/u1/expenses/new.png"

\* onSubmit: the bill_image_url written when no file is selected (<<>> for
\* null).  The first component walks its else-if chain over existingImageUrl
\* and form.watch("bill_image_url"); the second keeps existingImageUrl.
FinalBillImageUrl(page, image) ==
    IF page = "edit.first"
    THEN IF image.existingImageUrl # <<>> /\ image.bill_image_url = "" THEN <<>>
         ELSE IF image.existingImageUrl = <<>> /\ image.bill_image_url # ""
              THEN <<image.bill_image_url>>
         ELSE IF image.existingImageUrl # <<>> THEN image.existingImageUrl
         ELSE <<>>
    ELSE image.existingImageUrl

\* The update onSubmit sends, with the form's values and the image url.
EditUpdateRequest(finalBillImageUrl) ==
    <<[op |-> "update", id |-> edit_id,
       rows |-> <<[user_id |-> CurrentUser,
                   unit |-> Number(edit_values.unit).n,
                   price_per_unit |-> Number(edit_values.price_per_unit).n,
                   total |-> Number(edit_values.total).n,
                   payment_mode |-> payment_mode,
                   bill_image_url |-> finalBillImageUrl]>>]>>

\* fetchExpense answers.  A row: form.reset(data).  An error (also: no such
\* row of this user): navigate('/reports').
EditExpense_fetchAnswer ==
    /\ form_page \in {"edit.first", "edit.second"} /\ form_pc = "fetching"
    /\ \E ok \in BOOLEAN :
         IF ok /\ ExpenseById(edit_id, CurrentUser) # <<>>
         THEN LET data == ExpenseById(edit_id, CurrentUser)[1]
              IN  /\ edit_values' = [unit |-> ToString(data.unit),
                                     price_per_unit |-> ToString(data.price_per_unit),
                                     total |-> ToString(data.total)]
                  /\ payment_mode' = data.payment_mode
                  /\ edit_image' =
                        [edit_image EXCEPT
                           !.bill_image_url = IF data.bill_image_url = <<>> THEN ""
                                              ELSE data.bill_image_url[1],
                           !.existingImageUrl = data.bill_image_url]
                  /\ form_pc' = "editing"
                  /\ lastEvent' = [kind |-> "load", index |-> 0]
         ELSE /\ UNCHANGED <<edit_values, payment_mode, edit_image>>
              /\ form_pc' = "left"
              /\ lastEvent' = [kind |-> "failed", index |-> 0]
    /\ UNCHANGED <<form_page, add_items, edit_id, request, expenses>>
    /\ UNCHANGED notEditImage

\* A change event of unit or price_per_unit, and the watch callback it fires.
EditExpense_change(field, value) ==
    /\ form_page \in {"edit.first", "edit.second"} /\ form_pc \in {"fetching", "editing"}
    /\ edit_values[field] # InputValue(form_page, value)
    /\ edit_values' = ChangeItem(edit_values, field, value)
    /\ lastEvent' = [kind |-> "change", index |-> 0]
    /\ UNCHANGED <<form_page, form_pc, add_items, payment_mode, edit_id, request, expenses>>
    /\ UNCHANGED notForms

\* form.handleSubmit(onSubmit): the schema is checked; if it passes, onSubmit
\* uploads the selected file, or with no file selected sends the update with
\* the form's values.
EditExpense_onSubmit ==
    /\ form_page \in {"edit.first", "edit.second"} /\ form_pc = "editing"
    /\ IF EditFormValid /\ edit_image.selectedFile # <<>>
       THEN /\ form_pc' = "uploading"
            /\ lastEvent' = [kind |-> "upload", index |-> 0]
            /\ UNCHANGED request
       ELSE IF EditFormValid
       THEN /\ request' = EditUpdateRequest(FinalBillImageUrl(form_page, edit_image))
            /\ form_pc' = "submitting"
            /\ lastEvent' = [kind |-> "submit", index |-> 0]
       ELSE /\ UNCHANGED <<request, form_pc>>
            /\ lastEvent' =
                  [kind |-> "rejected", index |-> 0,
                   errors |-> FieldErrors(edit_values, 0)
                                \cup (IF payment_mode = ""
                                      THEN {<<0, "payment_mode">>} ELSE {})]
    /\ UNCHANGED <<form_page, add_items, payment_mode, edit_id, edit_values, expenses>>
    /\ UNCHANGED notForms

\* The update answers: on success the row with the route's id (in the first
\* component: and of this user) holds the form's values and the page is left.
EditExpense_updateAnswer ==
    /\ form_page \in {"edit.first", "edit.second"} /\ form_pc = "submitting"
    /\ \E ok \in BOOLEAN :
         IF ok
         THEN /\ expenses' =
                    [i \in DOMAIN expenses |->
                        IF /\ expenses[i].id = request[1].id
                           /\ (form_page = "edit.first" => expenses[i].user_id = CurrentUser)
                        THEN [expenses[i] EXCEPT
                                !.unit = request[1].rows[1].unit,
                                !.price_per_unit = request[1].rows[1].price_per_unit,
                                !.total = request[1].rows[1].total,
                                !.payment_mode = request[1].rows[1].payment_mode,
                                !.bill_image_url = request[1].rows[1].bill_image_url]
                        ELSE expenses[i]]
              /\ form_pc' = "left"
              /\ lastEvent' = [kind |-> "saved", index |-> 0]
         ELSE /\ UNCHANGED expenses
              /\ form_pc' = "editing"
              /\ lastEvent' = [kind |-> "failed", index |-> 0]
    /\ request' = <<>>
    /\ UNCHANGED <<form_page, add_items, payment_mode, edit_id, edit_values>>
    /\ UNCHANGED notForms

\* onSubmit: the upload has answered.  With the file stored the update is
\* sent with its public url; an upload error is thrown to the catch and no
\* update is sent.
EditExpense_uploadAnswer(ok) ==
    /\ form_page \in {"edit.first", "edit.second"} /\ form_pc = "uploading"
    /\ IF ok
       THEN /\ request' = EditUpdateRequest(<<UploadedUrl>>)
            /\ form_pc' = "submitting"
            /\ lastEvent' = [kind |-> "submit", index |-> 0]
       ELSE /\ UNCHANGED request
            /\ form_pc' = "editing"
            /\ lastEvent' = [kind |-> "failed", index |-> 0]
    /\ UNCHANGED <<form_page, add_items, payment_mode, edit_id, edit_values, expenses>>
    /\ UNCHANGED notForms

\* A change event of the file input: with a file (the user picked one), or
\* with none (the chooser was cancelled while the input held a file).
EditExpense_handleFileChange(file) ==
    /\ form_page \in {"edit.first", "edit.second"} /\ form_pc = "editing"
    /\ file = <<>> => edit_image.selectedFile # <<>>
    /\ edit_image' =
          IF file # <<>>
          THEN [edit_image EXCEPT !.selectedFile = file, !.existingImageUrl = <<>>,
                                  !.bill_image_url = ""]
          ELSE IF form_page = "edit.first"
               THEN [edit_image EXCEPT !.selectedFile = <<>>]
               ELSE edit_image
    /\ lastEvent' = [kind |-> "file", index |-> 0]
    /\ UNCHANGED <<form_page, form_pc, add_items, payment_mode, edit_id, edit_values,
                   request, expenses>>
    /\ UNCHANGED notEditImage

\* A click on the remove button, rendered while an image is displayed
\* (filePreviewUrl || existingImageUrl).
EditExpense_handleRemoveImage ==
    /\ form_page \in {"edit.first", "edit.second"} /\ form_pc = "editing"
    /\ edit_image.selectedFile # <<>> \/ edit_image.existingImageUrl # <<>>
    /\ edit_image' = [selectedFile |-> <<>>, existingImageUrl |-> <<>>,
                      bill_image_url |-> "", removed |-> TRUE]
    /\ lastEvent' = [kind |-> "remove", index |-> 0]
    /\ UNCHANGED <<form_page, form_pc, add_items, payment_mode, edit_id, edit_values,
                   request, expenses>>
    /\ UNCHANGED notEditImage

\* Rows of table 'expenses' found when the edit page opens.  The table is the
\* hosted store's: it is written by every client of the store and constrains
\* none of unit, price_per_unit and total.  The rows hold a bill image.
StoredUrl == "https://store/bill_images/u1/expenses/stored.png"

StoredExpenseRows ==
    [id : {1}, user_id : {CurrentUser}, unit : Amounts, price_per_unit : Amounts,
     total : Amounts, payment_mode : {"Cash"}, bill_image_url : {<<StoredUrl>>}]

(***************************************************************************)
(* The add-sale form.  src/pages/AddSale.tsx holds two AddSale components; *)
(* form_page is "sale.first" or "sale.second".  sale_values holds the      *)
(* form's date (a Date object) and the amount field's text; the form's     *)
(* payment_type is held in payment_mode.  item, category and note are      *)
(* taken as filled in and are left out.  The page stays open after a       *)
(* successful insert.                                                      *)
(***************************************************************************)
\* defaultValues, and the values form.reset restores after a success.
SaleDefaults(page, now) == [date |-> now, amount |-> IF page = "sale.first" THEN "0" ELSE ""]

\* JSON.stringify of a Date object, as the store's client sends it: the
\* text of the instant, day and time of day, not a 'yyyy-MM-dd' string.
toISOString(n) == Append(FormatISO(n), "T00:00:00.000Z")

\* The object passed to insert().  The first component names every field;
\* the second spreads the form's values after the formatted date:
\* { user_id, date: format(values.date, 'yyyy-MM-dd'), ...values }.
SaleInsertRow(page, values, payment_type) ==
    LET formatted == [user_id |-> CurrentUser,
                      date |-> FormatISO(values.date),
                      amount |-> Number(values.amount).n,
                      payment_type |-> payment_type]
    IN  IF page = "sale.first" THEN formatted
        ELSE [formatted EXCEPT !.date = toISOString(values.date)]

\* A change event of the amount input.
Sale_changeAmount(value) ==
    /\ form_page \in {"sale.first", "sale.second"} /\ form_pc = "editing"
    /\ sale_values.amount # InputValue(form_page, value)
    /\ sale_values' = [sale_values EXCEPT !.amount = InputValue(form_page, value)]
    /\ lastEvent' = [kind |-> "amount", index |-> 0]
    /\ UNCHANGED <<form_page, form_pc, add_items, payment_mode, edit_id, edit_values,
                   request, sales>>
    /\ UNCHANGED notSale

\* Calendar onSelect: the form's date is the selected day.
Sale_selectDate(day) ==
    /\ form_page \in {"sale.first", "sale.second"} /\ form_pc = "editing"
    /\ sale_values.date # day
    /\ sale_values' = [sale_values EXCEPT !.date = day]
    /\ lastEvent' = [kind |-> "date", index |-> 0]
    /\ UNCHANGED <<form_page, form_pc, add_items, payment_mode, edit_id, edit_values,
                   request, sales>>
    /\ UNCHANGED notSale

\* form.handleSubmit(onSubmit): the schema is checked; if it passes, onSubmit
\* sends the insert of one row.
Sale_onSubmit ==
    /\ form_page \in {"sale.first", "sale.second"} /\ form_pc = "editing"
    /\ Len(sales) < MaxRows
    /\ IF Positive(sale_values.amount) /\ payment_mode # ""
       THEN /\ request' = <<[op |-> "insert", id |-> 0,
                            rows |-> <<SaleInsertRow(form_page, sale_values,
                                                     payment_mode)>>]>>
            /\ form_pc' = "submitting"
            /\ lastEvent' = [kind |-> "submit", index |-> 0]
       ELSE /\ UNCHANGED <<request, form_pc>>
            /\ lastEvent' =
                  [kind |-> "rejected", index |-> 0,
                   errors |-> (IF Positive(sale_values.amount)
                               THEN {} ELSE {<<0, "amount">>})
                                \cup (IF payment_mode = ""
                                      THEN {<<0, "payment_type">>} ELSE {})]
    /\ UNCHANGED <<form_page, add_items, payment_mode, edit_id, edit_values, sale_values,
                   sales>>
    /\ UNCHANGED notSale

\* The insert answers: on success the row is stored as it was sent (the
\* store numbers it) and the form is reset; on an error the form stays.
Sale_insertAnswer ==
    /\ form_page \in {"sale.first", "sale.second"} /\ form_pc = "submitting"
    /\ \E ok \in BOOLEAN :
         IF ok
         THEN /\ sales' = Append(sales, [id |-> Len(sales) + 1] @@ request[1].rows[1])
              /\ sale_values' = SaleDefaults(form_page, today)
              /\ payment_mode' = ""
              /\ lastEvent' = [kind |-> "saved", index |-> 0]
         ELSE /\ UNCHANGED <<sales, sale_values, payment_mode>>
              /\ lastEvent' = [kind |-> "failed", index |-> 0]
    /\ form_pc' = "editing"
    /\ request' = <<>>
    /\ UNCHANGED <<form_page, add_items, edit_id, edit_values>>
    /\ UNCHANGED notSale

(***************************************************************************)
(* DataImport (src/components/DataImport.tsx), shown on the profile page:  *)
(* the rows of a backup file are inserted table by table.                  *)
(***************************************************************************)
ImportStages_ItemsFirst == <<"items", "transactions", "sales">>

ImportStages == <<"sales", "transactions", "items">>

\* The first stage from position k on whose list of the file is not empty
\* (length > 0), "done" if there is none.
RECURSIVE ImportStageFrom(_, _)
ImportStageFrom(file, k) ==
    IF k > Len(ImportStages) THEN "done"
    ELSE LET list == CASE k = 1 -> file.sales
                       [] k = 2 -> file.expenseTransactions
                       [] k = 3 -> file.expenseItems
         IN  IF Len(list) > 0 THEN ImportStages[k] ELSE ImportStageFrom(file, k + 1)

\* sales.map / expenseTransactions.map: ({ ...row, user_id: user.id, date: row.date })
WithUserId(rows, userId) == [i \in DOMAIN rows |-> [rows[i] EXCEPT !.user_id = userId]]

ImportIdle ==
    /\ import_pc = "idle"
    /\ importData = [sales |-> <<>>, expenseTransactions |-> <<>>, expenseItems |-> <<>>]
    /\ import_toast = ""
    /\ import_ui = [loadingToast |-> FALSE, fileInput |-> ""]

\* Backup files.  A transaction carries its id, an item the id of its
\* transaction and its user_id; the ids of the transactions are distinct
\* within a file.  The file's sales and transactions are another user's,
\* its items the importing user's or, one kind of item, another user's.
ImportFiles ==
    [sales : SeqsUpTo([id : {1}, user_id : {"u2"}, date : {FormatISO(9)}, amount : {1},
                       payment_type : {"Cash"}], 1),
     expenseTransactions :
        {t \in SeqsUpTo([id : {1, 2}, user_id : {"u2"}, date : {FormatISO(9)},
                         grand_total : Amounts, payment_mode : {"Cash"}], 2) :
            \A i, j \in DOMAIN t : i # j => t[i].id # t[j].id},
     expenseItems :
        SeqsUpTo({r \in [transaction_id : {1, 2}, user_id : Users, unit : Amounts,
                         price_per_unit : {1}, total : Amounts] :
                     /\ r.total = r.unit * r.price_per_unit
                     /\ (r.user_id = CurrentUser \/ (r.transaction_id = 1 /\ r.unit = 1))},
                 MaxItems)]

\* finally: dismissToast(toastId); fileInputRef.current.value = ''
ImportFinally == [loadingToast |-> FALSE, fileInput |-> ""]

\* The input's onChange: the loading toast is shown, the file is read and
\* parsed, and the first insert is sent (none of the three if every list is
\* empty).  A file that is no JSON text throws: the error is shown.
Import_handleImportData ==
    /\ route = "/profile"
    /\ import_pc = "idle"
    /\ \E file \in ImportFiles, parsed \in BOOLEAN :
         IF parsed
         THEN /\ importData' = file
              /\ import_pc' = ImportStageFrom(file, 1)
              /\ import_toast' = IF ImportStageFrom(file, 1) = "done"
                                 THEN "success" ELSE "loading"
              /\ import_ui' = IF ImportStageFrom(file, 1) = "done"
                              THEN ImportFinally
                              ELSE [loadingToast |-> TRUE, fileInput |-> "backup.json"]
         ELSE /\ UNCHANGED importData
              /\ import_pc' = "done"
              /\ import_toast' = "error"
              /\ import_ui' = ImportFinally
    /\ UNCHANGED <<sales, expense_transactions, expense_items>>
    /\ UNCHANGED notImport

\* An insert answers: its rows are stored and the next insert is sent, or
\* the error is thrown and shown; the earlier inserts stay.
Import_insertAnswer(stage, k) ==
    /\ import_pc = stage
    /\ stage = ImportStages[k]
    /\ \E ok \in BOOLEAN :
         IF ok
         THEN /\ sales' = IF stage = "sales"
                          THEN sales \o WithUserId(importData.sales, CurrentUser)
                          ELSE sales
              /\ expense_transactions' =
                    IF stage = "transactions"
                    THEN expense_transactions
                            \o WithUserId(importData.expenseTransactions, CurrentUser)
                    ELSE expense_transactions
              /\ expense_items' = IF stage = "items"
                                  THEN expense_items \o importData.expenseItems
                                  ELSE expense_items
              /\ import_pc' = ImportStageFrom(importData, k + 1)
              /\ import_toast' = IF ImportStageFrom(importData, k + 1) = "done"
                                 THEN "success" ELSE import_toast
              /\ import_ui' = IF ImportStageFrom(importData, k + 1) = "done"
                              THEN ImportFinally ELSE import_ui
         ELSE /\ UNCHANGED <<sales, expense_transactions, expense_items>>
              /\ import_pc' = "done"
              /\ import_toast' = "error"
              /\ import_ui' = ImportFinally
    /\ UNCHANGED importData
    /\ UNCHANGED notImport

(***************************************************************************)
(* Reports page (second version): the monthly summary and the table.       *)
(***************************************************************************)
selectedYear == getFullYear(today)
selectedMonth == getMonth(today)

\* from('sales').select(...).eq('user_id', userId).gte('date', start).lte('date', end)
SalesInRange(userId, start, end) ==
    SelectSeq(sales, LAMBDA s : s.user_id = userId /\ IsoLeq(start, s.date) /\ IsoLeq(s.date, end))

ExpenseTransactionsInRange(userId, start, end) ==
    SelectSeq(expense_transactions,
              LAMBDA e : e.user_id = userId /\ IsoLeq(start, e.date) /\ IsoLeq(e.date, end))

MonthlyCashSales_NotGpay(data) ==
    Reduce(AmountsOf(SelectSeq(data, LAMBDA s : s.payment_type # "Gpay")))

MonthlyCashSales(data) ==
    Reduce(AmountsOf(SelectSeq(data, LAMBDA s : s.payment_type = "Cash")))

MonthlyGpaySales(data) ==
    Reduce(AmountsOf(SelectSeq(data, LAMBDA s : s.payment_type = "Gpay")))

MonthlyTotalExpenses(data) == Reduce(GrandTotalsOf(data))

MonthlyCashExpenses(data) ==
    Reduce(GrandTotalsOf(SelectSeq(data, LAMBDA e : e.payment_mode = "Cash")))

MonthlyGpayExpenses(data) ==
    Reduce(GrandTotalsOf(SelectSeq(data, LAMBDA e : e.payment_mode = "Gpay")))

\* The object handed to setMonthlySummary.  A failed query leaves its figures at 0.
MonthlySummaryOf(salesAns, expensesAns) ==
    LET monthlyCashSales == IF salesAns.ok THEN MonthlyCashSales(salesAns.data) ELSE 0
        monthlyGpaySales == IF salesAns.ok THEN MonthlyGpaySales(salesAns.data) ELSE 0
        monthlyTotalExpenses ==
            IF expensesAns.ok THEN MonthlyTotalExpenses(expensesAns.data) ELSE 0
        monthlyCashExpenses ==
            IF expensesAns.ok THEN MonthlyCashExpenses(expensesAns.data) ELSE 0
        monthlyGpayExpenses ==
            IF expensesAns.ok THEN MonthlyGpayExpenses(expensesAns.data) ELSE 0
    IN  [totalMonthlySales |-> monthlyCashSales + monthlyGpaySales,
         cashInHand |-> monthlyCashSales - monthlyCashExpenses,
         bankBalance |-> monthlyGpaySales - monthlyGpayExpenses,
         monthlyCashSales |-> monthlyCashSales,
         monthlyGpaySales |-> monthlyGpaySales,
         monthlyTotalExpenses |-> monthlyTotalExpenses,
         monthlyCashExpenses |-> monthlyCashExpenses,
         monthlyGpayExpenses |-> monthlyGpayExpenses]

\* from('expense_items').select('*').in('transaction_id', transactionIds)
ItemsOf(transactionIds) ==
    SelectSeq(expense_items, LAMBDA item : item.transaction_id \in transactionIds)

\* combinedTransactions: under the type filter, the sales, then the expense
\* transactions, each with its items (itemsByTransactionId[t.id] || []) and
\* amount = grand_total, sorted by date, newest first.
CombinedTransactions(salesAns, expensesAns, itemsData, typeFilter) ==
    LET saleRows ==
            IF salesAns.ok /\ typeFilter \in {"all", "sale"}
            THEN [i \in DOMAIN salesAns.data |->
                    [type |-> "sale", id |-> salesAns.data[i].id,
                     date |-> salesAns.data[i].date, amount |-> salesAns.data[i].amount,
                     items |-> <<>>]]
            ELSE <<>>
        expenseRows ==
            IF expensesAns.ok /\ typeFilter \in {"all", "expense"}
            THEN [i \in DOMAIN expensesAns.data |->
                    [type |-> "expense", id |-> expensesAns.data[i].id,
                     date |-> expensesAns.data[i].date,
                     amount |-> expensesAns.data[i].grand_total,
                     items |-> SelectSeq(itemsData,
                                  LAMBDA item : item.transaction_id = expensesAns.data[i].id)]]
            ELSE <<>>
    IN  SortByDateDesc(saleRows \o expenseRows)

ReportsIdle ==
    /\ rep_pc = "idle"
    /\ salesDataForMonth = NoAnswer
    /\ expensesDataForMonth = NoAnswer
    /\ monthlySummary = <<>>
    /\ allTransactions = <<>>
    /\ rep_loadingData = TRUE
    /\ transactionTypeFilter = "all"
    /\ salesDataForTable = NoAnswer
    /\ transactionsDataForTable = NoAnswer
    /\ rep_deleting = <<>>

\* useEffect: if (user) fetchReports(); setLoadingData(true) and the first query is sent.
Reports_fetchReports ==
    /\ route = "/reports"
    /\ rep_pc = "idle"
    /\ rep_pc' = "salesForMonth"
    /\ rep_loadingData' = TRUE
    /\ UNCHANGED <<salesDataForMonth, expensesDataForMonth, monthlySummary, allTransactions>>
    /\ UNCHANGED notReports

\* The monthly sales query answers; the monthly expenses query is sent.
Reports_salesForMonthAnswer ==
    /\ rep_pc = "salesForMonth"
    /\ \E ok \in BOOLEAN :
         salesDataForMonth' =
            Answer(ok, SalesInRange(CurrentUser, StartOfMonth(selectedYear, selectedMonth),
                                    EndOfMonth(selectedYear, selectedMonth)))
    /\ rep_pc' = "expensesForMonth"
    /\ UNCHANGED <<expensesDataForMonth, monthlySummary, allTransactions, rep_loadingData>>
    /\ UNCHANGED notReports

\* The monthly expenses query answers; the summary is computed and set, and
\* the two table queries are sent.
Reports_expensesForMonthAnswer ==
    /\ rep_pc = "expensesForMonth"
    /\ \E ok \in BOOLEAN :
         /\ expensesDataForMonth' =
              Answer(ok, ExpenseTransactionsInRange(CurrentUser,
                            StartOfMonth(selectedYear, selectedMonth),
                            EndOfMonth(selectedYear, selectedMonth)))
         /\ monthlySummary' = <<MonthlySummaryOf(salesDataForMonth, expensesDataForMonth')>>
    /\ rep_pc' = "table"
    /\ UNCHANGED <<salesDataForMonth, allTransactions, rep_loadingData>>
    /\ UNCHANGED notReports

\* Promise.all of the two table queries answers (no date range, no search
\* term).  If the expenses are shown the items query is sent; else the table
\* is set.
Reports_tableAnswer ==
    /\ rep_pc = "table"
    /\ \E okSales \in BOOLEAN, okExpenses \in BOOLEAN :
         /\ salesDataForTable' =
                Answer(okSales, SalesInRange(CurrentUser,
                            StartOfMonth(selectedYear, selectedMonth),
                            EndOfMonth(selectedYear, selectedMonth)))
         /\ transactionsDataForTable' =
                Answer(okExpenses, ExpenseTransactionsInRange(CurrentUser,
                            StartOfMonth(selectedYear, selectedMonth),
                            EndOfMonth(selectedYear, selectedMonth)))
    /\ IF transactionsDataForTable'.ok /\ transactionTypeFilter \in {"all", "expense"}
       THEN /\ rep_pc' = "items"
            /\ UNCHANGED <<allTransactions, rep_loadingData>>
       ELSE /\ allTransactions' =
                  CombinedTransactions(salesDataForTable', transactionsDataForTable', <<>>,
                                       transactionTypeFilter)
            /\ rep_loadingData' = FALSE
            /\ rep_pc' = "done"
    /\ UNCHANGED <<salesDataForMonth, expensesDataForMonth, monthlySummary>>
    /\ UNCHANGED <<transactionTypeFilter, rep_deleting, sales, expense_transactions,
                   expense_items>>
    /\ UNCHANGED notTable

\* The items query answers (on an error: no items); the table is set.
Reports_itemsAnswer ==
    /\ rep_pc = "items"
    /\ \E ok \in BOOLEAN :
         allTransactions' =
            CombinedTransactions(
                salesDataForTable, transactionsDataForTable,
                IF ok
                THEN ItemsOf({transactionsDataForTable.data[i].id :
                                i \in DOMAIN transactionsDataForTable.data})
                ELSE <<>>,
                transactionTypeFilter)
    /\ rep_loadingData' = FALSE
    /\ rep_pc' = "done"
    /\ UNCHANGED <<salesDataForMonth, expensesDataForMonth, monthlySummary>>
    /\ UNCHANGED notReports

\* The type filter's Select: setTransactionTypeFilter(value); the effect runs
\* fetchReports again.
Reports_setTransactionTypeFilter(value) ==
    /\ rep_pc = "done" /\ rep_deleting = <<>>
    /\ transactionTypeFilter # value
    /\ transactionTypeFilter' = value
    /\ rep_pc' = "salesForMonth"
    /\ rep_loadingData' = TRUE
    /\ UNCHANGED <<salesDataForMonth, expensesDataForMonth, monthlySummary, allTransactions>>
    /\ UNCHANGED <<salesDataForTable, transactionsDataForTable, rep_deleting, sales,
                   expense_transactions, expense_items>>
    /\ UNCHANGED notTable

\* handleDelete of row k of the table, confirmed: the delete is sent.
Reports_handleDelete(k) ==
    /\ rep_pc = "done" /\ rep_deleting = <<>>
    /\ k \in DOMAIN allTransactions
    /\ rep_deleting' = <<[type |-> allTransactions[k].type, id |-> allTransactions[k].id]>>
    /\ UNCHANGED reportsVars
    /\ UNCHANGED <<transactionTypeFilter, salesDataForTable, transactionsDataForTable, sales,
                   expense_transactions, expense_items>>
    /\ UNCHANGED notTable

\* from(table).delete().eq('id', id) answers: on success the table's rows
\* with that id are gone and the entry leaves allTransactions.  The request
\* names one table; what the store does with the items of a deleted
\* transaction is a rule of the store that the repository does not define:
\* they go with it (cascade) or they stay.
Reports_deleteAnswer ==
    /\ rep_deleting # <<>>
    /\ \E ok, cascade \in BOOLEAN :
         IF ok
         THEN /\ expense_items' =
                    IF rep_deleting[1].type = "expense" /\ cascade
                    THEN SelectSeq(expense_items,
                                   LAMBDA item : item.transaction_id # rep_deleting[1].id)
                    ELSE expense_items
              /\ sales' = IF rep_deleting[1].type = "sale"
                          THEN SelectSeq(sales, LAMBDA r : r.id # rep_deleting[1].id)
                          ELSE sales
              /\ expense_transactions' =
                    IF rep_deleting[1].type = "expense"
                    THEN SelectSeq(expense_transactions,
                                   LAMBDA r : r.id # rep_deleting[1].id)
                    ELSE expense_transactions
              /\ allTransactions' =
                    SelectSeq(allTransactions,
                              LAMBDA t : t.id # rep_deleting[1].id
                                            \/ t.type # rep_deleting[1].type)
         ELSE UNCHANGED <<sales, expense_transactions, allTransactions, expense_items>>
    /\ rep_deleting' = <<>>
    /\ UNCHANGED <<rep_pc, salesDataForMonth, expensesDataForMonth, monthlySummary,
                   rep_loadingData>>
    /\ UNCHANGED <<transactionTypeFilter, salesDataForTable, transactionsDataForTable>>
    /\ UNCHANGED notTable

\* The store numbers the rows of a table: column id.
WithIds(rows) == [i \in DOMAIN rows |-> [id |-> i] @@ rows[i]]

\* Rows of the two tables the reports page reads.  Rows of another user or
\* of another month exist beside the current user's.
ReportDates == {FormatISO(8), FormatISO(9)}

SaleRows ==
    {r \in [user_id : Users, date : ReportDates, amount : Amounts,
            payment_type : PaymentMethods] :
        r.user_id = CurrentUser \/ (r.date = FormatISO(9) /\ r.payment_type = "Cash")}

ExpenseTransactionRows ==
    {r \in [user_id : Users, date : ReportDates, grand_total : Amounts,
            payment_mode : PaymentMethods] :
        r.user_id = CurrentUser \/ (r.date = FormatISO(9) /\ r.payment_mode = "Cash")}

(***************************************************************************)
(* The session provider (supabaseContext.tsx), the route guard             *)
(* (ProtectedRoute.tsx and its later version with the onboarding check),   *)
(* the login page's redirect and Onboarding.handleComplete.                *)
(*                                                                         *)
(* The auth service is an external collaborator: it holds the signed-in    *)
(* user (auth_session) and calls the provider's onAuthStateChange callback *)
(* whenever that changes.  State updates made between two awaits of one    *)
(* function are rendered together, so each action runs from one await to   *)
(* the next.  The session is modelled by its user's id.                    *)
(*                                                                         *)
(* No route table under src/ mounts the Onboarding page.  The later guard  *)
(* tests location.pathname === '/onboarding' in its own render, which only *)
(* a guard mounted above that page can see, so the page is modelled as a   *)
(* child route of the guard: the guard stays mounted across the navigation *)
(* between '/onboarding' and '/'.                                          *)
(***************************************************************************)
GuardVersions == {"ProtectedRoute.tsx", "ProtectedRoute.onboarding"}

\* The row of table 'profiles' of user u whose first and last name are name.
ProfileRow(u, name) == [id |-> u, first_name |-> name, last_name |-> name]

\* The names typed into the onboarding form.
OnboardingName == "Ann"

\* What a profiles query .eq('id', u).single() can answer: an error, no row
\* (PGRST116) or the stored row; both callers keep null for the first two.
ProfileAnswers(u) == {<<>>, <<ProfileRow(u, profiles[u])>>}

\* The guard is mounted: useState initial values, and the effect not yet run.
GuardMount ==
    /\ onboardingCompleted' = FALSE
    /\ checkingOnboarding' = TRUE
    /\ guard_deps' = <<>>

SessionIdle ==
    /\ auth_session = <<CurrentUser>>
    /\ session = <<CurrentUser>>
    /\ user = <<CurrentUser>>
    /\ profile = <<>>
    /\ isLoading = FALSE
    /\ fetchSessionAndProfile = [pc |-> "done", user |-> <<>>]
    /\ profileRequests = {}
    /\ profiles = [u \in Users |-> OnboardingName]
    /\ guard_version = "ProtectedRoute.tsx"
    /\ onboardingCompleted = FALSE
    /\ checkingOnboarding = TRUE
    /\ guard_deps = <<>>
    /\ userPreferences = <<>>
    /\ handleComplete = [pc |-> "idle", user |-> <<>>]

\* supabaseContext.tsx, fetchSessionAndProfile: getSession has answered.
Session_getSessionAnswer ==
    /\ fetchSessionAndProfile.pc = "getSession"
    /\ session' = auth_session
    /\ user' = auth_session
    /\ IF auth_session # <<>>
       THEN /\ fetchSessionAndProfile' = [pc |-> "profile", user |-> auth_session]
            /\ UNCHANGED <<profile, isLoading>>
       ELSE /\ fetchSessionAndProfile' = [pc |-> "done", user |-> <<>>]
            /\ profile' = <<>>
            /\ isLoading' = FALSE
    /\ UNCHANGED <<auth_session, profileRequests, profiles, guardVars, userPreferences,
                   handleComplete, route, notSession>>

\* supabaseContext.tsx, fetchSessionAndProfile: the profile query has answered.
Session_profileAnswer ==
    /\ fetchSessionAndProfile.pc = "profile"
    /\ \E answer \in ProfileAnswers(fetchSessionAndProfile.user[1]) :
          profile' = answer
    /\ isLoading' = FALSE
    /\ fetchSessionAndProfile' = [pc |-> "done", user |-> <<>>]
    /\ UNCHANGED <<auth_session, session, user, profileRequests, profiles, guardVars,
                   userPreferences, handleComplete, route, notSession>>

\* The auth service signs a user in (from the signed-out state), signs the
\* user out or refreshes the session, and calls the onAuthStateChange
\* callback of supabaseContext.tsx.
Session_onAuthStateChange(newSession) ==
    /\ auth_session = <<>> \/ newSession \in {<<>>, auth_session}
    /\ auth_session' = newSession
    /\ session' = newSession
    /\ user' = newSession
    /\ IF newSession # <<>>
       THEN /\ profileRequests' = profileRequests \cup {newSession[1]}
            /\ UNCHANGED profile
       ELSE /\ profile' = <<>>
            /\ UNCHANGED profileRequests
    /\ isLoading' = FALSE
    /\ UNCHANGED <<fetchSessionAndProfile, profiles, guardVars, userPreferences,
                   handleComplete, route, notSession>>

\* The .then of the callback's profile query: setProfile with the answer for
\* the user the query was made for.
Session_authProfileAnswer(u) ==
    /\ u \in profileRequests
    /\ \E answer \in ProfileAnswers(u) : profile' = answer
    /\ profileRequests' \in {profileRequests, profileRequests \ {u}}
    /\ UNCHANGED <<auth_session, session, user, isLoading, fetchSessionAndProfile,
                   profiles, guardVars, userPreferences, handleComplete, route,
                   notSession>>

\* The dependency list of the guard's effect.
GuardDeps == <<session, isLoading, profile>>

\* ProtectedRoute (onboarding version): the effect, run after mount and
\* after a change of session, isLoading or profile.
ProtectedRoute_checkOnboardingStatus ==
    /\ guard_version = "ProtectedRoute.onboarding"
    /\ route # "/login"
    /\ guard_deps # <<GuardDeps>>
    /\ guard_deps' = <<GuardDeps>>
    /\ IF ~isLoading /\ session # <<>>
       THEN /\ onboardingCompleted' =
                 IF userPreferences # <<>>
                 THEN userPreferences[1].onboardingCompleted
                 ELSE profile # <<>> /\ profile[1].first_name # ""
                                     /\ profile[1].last_name # ""
            /\ checkingOnboarding' = FALSE
       ELSE IF ~isLoading
            THEN /\ checkingOnboarding' = FALSE
                 /\ UNCHANGED onboardingCompleted
            ELSE UNCHANGED <<onboardingCompleted, checkingOnboarding>>
    /\ UNCHANGED <<providerVars, guard_version, userPreferences, handleComplete, route,
                   notSession>>

\* What the guard without a session check would render.
GuardRender_NoSessionCheck ==
    IF isLoading \/ (guard_version = "ProtectedRoute.onboarding" /\ checkingOnboarding)
    THEN "Loading"
    ELSE "Outlet"

\* What the mounted guard renders: the loading view, a <Navigate> to a path,
\* or the child route.
GuardRender ==
    IF guard_version = "ProtectedRoute.tsx"
    THEN IF isLoading THEN "Loading"
         ELSE IF session = <<>> THEN "/login"
         ELSE "Outlet"
    ELSE IF isLoading \/ checkingOnboarding THEN "Loading"
         ELSE IF session = <<>> THEN "/login"
         ELSE IF ~onboardingCompleted /\ route # "/onboarding" THEN "/onboarding"
         ELSE IF onboardingCompleted /\ route = "/onboarding" THEN "/"
         ELSE "Outlet"

\* <Navigate to=... replace />: the location becomes the target; the guard
\* is unmounted when the target is the login page.
ProtectedRoute_Navigate ==
    /\ route # "/login"
    /\ GuardRender \in {"/login", "/onboarding", "/"}
    /\ route' = GuardRender
    /\ UNCHANGED <<providerVars, guardVars, userPreferences, handleComplete, notSession>>

\* Login.tsx: the effect that leaves the login page once a session exists;
\* the guard is mounted anew.
Login_navigate ==
    /\ route = "/login"
    /\ ~isLoading /\ session # <<>>
    /\ route' = "/"
    /\ GuardMount
    /\ UNCHANGED <<providerVars, guard_version, userPreferences, handleComplete,
                   notSession>>

\* Onboarding.handleComplete, up to the await of auth.getUser().
Onboarding_handleComplete ==
    /\ route = "/onboarding"
    /\ GuardRender = "Outlet"
    /\ handleComplete.pc = "idle"
    /\ handleComplete' = [pc |-> "getUser", user |-> <<>>]
    /\ UNCHANGED <<providerVars, guardVars, userPreferences, route, notSession>>

\* Onboarding.handleComplete: getUser has answered; with a user the update
\* of the profile row is sent, without one nothing more happens.
Onboarding_getUserAnswer ==
    /\ handleComplete.pc = "getUser"
    /\ handleComplete' = IF auth_session # <<>>
                         THEN [pc |-> "update", user |-> auth_session]
                         ELSE [pc |-> "idle", user |-> <<>>]
    /\ UNCHANGED <<providerVars, guardVars, userPreferences, route, notSession>>

\* Onboarding.handleComplete: the update has answered.  On success the
\* preferences are stored and navigate('/') is called (while the page is
\* still mounted); an error is thrown to the catch, which shows a toast.
Onboarding_updateAnswer(ok) ==
    /\ handleComplete.pc = "update"
    /\ handleComplete' = [pc |-> "idle", user |-> <<>>]
    /\ IF ok
       THEN /\ profiles' = [profiles EXCEPT ![handleComplete.user[1]] = OnboardingName]
            /\ userPreferences' = <<[onboardingCompleted |-> TRUE]>>
            /\ route' = "/"
            /\ IF route = "/login" THEN GuardMount ELSE UNCHANGED guardState
       ELSE UNCHANGED <<profiles, userPreferences, route, guardState>>
    /\ UNCHANGED <<auth_session, session, user, profile, isLoading,
                   fetchSessionAndProfile, profileRequests, guard_version, notSession>>

(***************************************************************************)
(* Reports.tsx: the filtered lists.  The effect calls fetchReports on      *)
(* mount and after every change of a filter or of the debounced search     *)
(* term; a call keeps the filter values of the render that started it,     *)
(* awaits the sales query, then the expenses query, and nothing cancels a  *)
(* call when a later one starts.  While loadingData is true the page shows *)
(* only the loading view, so the filter controls can be used only while it *)
(* is false; the debounce timer of the search input fires regardless.      *)
(* The sale payment type and the search term are modelled; the date range, *)
(* the category and the expense payment mode stay at their initial values  *)
(* (no restriction).                                                       *)
(***************************************************************************)
FilterValues == {"all", "Cash"}
SearchTerms == {"", "tea"}

\* column ILIKE '%term%' over the texts of the model: the match ignores case.
ILike(text, term) == <<text, term>> \in {<<"Tea", "tea">>}

\* from('sales').select('*').eq('user_id', userId) [.eq('payment_type', ...)]
\* [.or('item.ilike.%term%,category.ilike.%term%')]
\* .order('date', { ascending: false })
FilteredSales(userId, paymentType, term) ==
    SortByDateDesc(SelectSeq(sales, LAMBDA s :
        /\ s.user_id = userId
        /\ paymentType = "all" \/ s.payment_type = paymentType
        /\ term = "" \/ ILike(s.item, term) \/ ILike(s.category, term)))

\* from('expenses').select('*').eq('user_id', userId)
\* [.ilike('item_name', '%term%')].order('date', { ascending: false })
FilteredExpenses(userId, term) ==
    SortByDateDesc(SelectSeq(expenses, LAMBDA e :
        /\ e.user_id = userId
        /\ term = "" \/ ILike(e.item_name, term)))

\* The sum of total over the rows dated in the month and year of now.
TotalExpensesForCurrentMonth(expensesData, now) ==
    LET inMonth == SelectSeq(expensesData, LAMBDA e :
                       e.date[1] = getFullYear(now) /\ e.date[2] = getMonth(now))
    IN  Reduce([i \in DOMAIN inMonth |-> inMonth[i].total])

FiltersIdle ==
    /\ salePaymentTypeFilter = "all"
    /\ searchTerm = ""
    /\ debouncedSearchTerm = ""
    /\ fetchReports = <<>>
    /\ reports_sales = <<>>
    /\ reports_expenses = <<>>
    /\ currentMonthFilteredExpenseTotal = 0
    /\ reports_loadingData = TRUE
    /\ reports_errorShown = FALSE

\* fetchReports up to its first await, with the filters of the render that
\* runs the effect.
StartFetchReports(saleFilter, term) ==
    /\ reports_loadingData' = TRUE
    /\ fetchReports' = Append(fetchReports,
           [pc |-> "sales", salePaymentTypeFilter |-> saleFilter,
            debouncedSearchTerm |-> term])

\* The user picks another sale payment type; the effect runs fetchReports.
Reports_setSalePaymentTypeFilter(value) ==
    /\ route = "/reports"
    /\ ~reports_loadingData
    /\ value # salePaymentTypeFilter
    /\ Len(fetchReports) < MaxFetches
    /\ salePaymentTypeFilter' = value
    /\ StartFetchReports(value, debouncedSearchTerm)
    /\ UNCHANGED <<searchTerm, debouncedSearchTerm, reports_sales, reports_expenses,
                   currentMonthFilteredExpenseTotal, reports_errorShown, notFilters>>

\* The user types in the search input; the debounce effect restarts its timer.
Reports_setSearchTerm(value) ==
    /\ route = "/reports"
    /\ ~reports_loadingData
    /\ value # searchTerm
    /\ searchTerm' = value
    /\ UNCHANGED <<salePaymentTypeFilter, debouncedSearchTerm, fetchReports, reports_sales,
                   reports_expenses, currentMonthFilteredExpenseTotal,
                   reports_loadingData, reports_errorShown, notFilters>>

\* The debounce timer fires 500 ms after the last keystroke:
\* setDebouncedSearchTerm(searchTerm); on a change the effect runs fetchReports.
Reports_debounceTimeout ==
    /\ route = "/reports"
    /\ debouncedSearchTerm # searchTerm
    /\ Len(fetchReports) < MaxFetches
    /\ debouncedSearchTerm' = searchTerm
    /\ StartFetchReports(salePaymentTypeFilter, searchTerm)
    /\ UNCHANGED <<salePaymentTypeFilter, searchTerm, reports_sales, reports_expenses,
                   currentMonthFilteredExpenseTotal, reports_errorShown, notFilters>>

\* Call i of fetchReports: its sales query has answered; the expenses query
\* is sent.
Reports_filteredSalesAnswer(i, ok) ==
    /\ i \in DOMAIN fetchReports
    /\ fetchReports[i].pc = "sales"
    /\ IF ok
       THEN /\ reports_sales' =
                 FilteredSales(CurrentUser, fetchReports[i].salePaymentTypeFilter,
                               fetchReports[i].debouncedSearchTerm)
            /\ UNCHANGED reports_errorShown
       ELSE /\ reports_errorShown' = TRUE
            /\ UNCHANGED reports_sales
    /\ fetchReports' = [fetchReports EXCEPT ![i].pc = "expenses"]
    /\ UNCHANGED <<salePaymentTypeFilter, searchTerm, debouncedSearchTerm, reports_expenses,
                   currentMonthFilteredExpenseTotal, reports_loadingData, notFilters>>

\* Call i of fetchReports: its expenses query has answered; the call ends.
Reports_filteredExpensesAnswer(i, ok) ==
    /\ i \in DOMAIN fetchReports
    /\ fetchReports[i].pc = "expenses"
    /\ LET expensesData ==
               FilteredExpenses(CurrentUser, fetchReports[i].debouncedSearchTerm)
       IN  IF ok
           THEN /\ reports_expenses' = expensesData
                /\ currentMonthFilteredExpenseTotal' =
                       TotalExpensesForCurrentMonth(expensesData, today)
                /\ UNCHANGED reports_errorShown
           ELSE /\ reports_errorShown' = TRUE
                /\ currentMonthFilteredExpenseTotal' = 0
                /\ UNCHANGED reports_expenses
    /\ reports_loadingData' = FALSE
    /\ fetchReports' = SubSeq(fetchReports, 1, i - 1)
                         \o SubSeq(fetchReports, i + 1, Len(fetchReports))
    /\ UNCHANGED <<salePaymentTypeFilter, searchTerm, debouncedSearchTerm, reports_sales,
                   notFilters>>

InitReports ==
    /\ today = 9
    /\ sales \in {WithIds(rows) : rows \in SeqsUpTo(SaleRows, MaxRows)}
    /\ expense_transactions \in
          {WithIds(rows) : rows \in SeqsUpTo(ExpenseTransactionRows, MaxRows - Len(sales))}
    /\ expenses = <<>>
    /\ expense_items = <<>>
    /\ route = "/reports"
    /\ ReportsIdle
    /\ DashboardIdle
    /\ ChartIdle
    /\ FormsIdle
    /\ ImportIdle
    /\ SessionIdle
    /\ FiltersIdle
    /\ sale_values = SaleDefaults("sale.first", today)

NextReports ==
    \/ Reports_fetchReports
    \/ Reports_salesForMonthAnswer
    \/ Reports_expensesForMonthAnswer
    \/ Reports_tableAnswer
    \/ Reports_itemsAnswer

SpecReports == InitReports /\ [][NextReports]_vars


(***************************************************************************)
(* Claims about the monthly summary.  The sums of the claims are written   *)
(* over index sets, independently of the page's filter/reduce chains.      *)
(***************************************************************************)
RECURSIVE SumOverIndices(_, _)
SumOverIndices(I, f) ==
    IF I = {} THEN 0
    ELSE LET i == CHOOSE x \in I : TRUE IN f[i] + SumOverIndices(I \ {i}, f)

TotalAmount(rows) == SumOverIndices(DOMAIN rows, [i \in DOMAIN rows |-> rows[i].amount])
TotalGrandTotal(rows) ==
    SumOverIndices(DOMAIN rows, [i \in DOMAIN rows |-> rows[i].grand_total])
CashAmount(rows) ==
    SumOverIndices({i \in DOMAIN rows : rows[i].payment_type = "Cash"},
                   [i \in DOMAIN rows |-> rows[i].amount])
CashGrandTotal(rows) ==
    SumOverIndices({i \in DOMAIN rows : rows[i].payment_mode = "Cash"},
                   [i \in DOMAIN rows |-> rows[i].grand_total])

RemoveAt(rows, i) == SubSeq(rows, 1, i - 1) \o SubSeq(rows, i + 1, Len(rows))

\* The summary on display was computed from two successful monthly queries.
ReportsSummarised ==
    /\ monthlySummary # <<>>
    /\ salesDataForMonth.ok
    /\ expensesDataForMonth.ok

\* C1: cashInHand + bankBalance equals total sales minus total expenses of the
\* month's rows, whatever payment methods the rows carry.
C1_PartitionReconcilesToProfit ==
    ReportsSummarised =>
        monthlySummary[1].cashInHand + monthlySummary[1].bankBalance
            = TotalAmount(salesDataForMonth.data) - TotalGrandTotal(expensesDataForMonth.data)

\* C2: bankBalance pools every sale and every expense whose payment method is
\* not exactly "Cash".
C2_BankPoolsEveryNonCash ==
    ReportsSummarised =>
        monthlySummary[1].bankBalance
            = (TotalAmount(salesDataForMonth.data) - CashAmount(salesDataForMonth.data))
              - (TotalGrandTotal(expensesDataForMonth.data)
                 - CashGrandTotal(expensesDataForMonth.data))

\* C3: cashInHand is the "Cash" sales minus the "Cash" expenses, and removing
\* a non-"Cash" record from the input, or adding one to it, leaves it unchanged.
C3_CashInHandIsCashOnly ==
    ReportsSummarised =>
        LET s == salesDataForMonth.data
            e == expensesDataForMonth.data
            cash == monthlySummary[1].cashInHand
        IN  /\ cash = CashAmount(s) - CashGrandTotal(e)
            /\ \A i \in DOMAIN s :
                  s[i].payment_type # "Cash" =>
                    MonthlySummaryOf(Answer(TRUE, RemoveAt(s, i)),
                                     expensesDataForMonth).cashInHand = cash
            /\ \A i \in DOMAIN e :
                  e[i].payment_mode # "Cash" =>
                    MonthlySummaryOf(salesDataForMonth,
                                     Answer(TRUE, RemoveAt(e, i))).cashInHand = cash
            /\ \A r \in SaleRows :
                  r.payment_type # "Cash" =>
                    MonthlySummaryOf(Answer(TRUE, Append(s, r)),
                                     expensesDataForMonth).cashInHand = cash
            /\ \A r \in ExpenseTransactionRows :
                  r.payment_mode # "Cash" =>
                    MonthlySummaryOf(salesDataForMonth,
                                     Answer(TRUE, Append(e, r))).cashInHand = cash

\* A summary computed from a "Cash" sale beside a "Card" sale.
C3_Witness ==
    /\ ReportsSummarised
    /\ \E i, j \in DOMAIN salesDataForMonth.data :
          /\ salesDataForMonth.data[i].payment_type = "Cash"
          /\ salesDataForMonth.data[j].payment_type = "Card"
    /\ monthlySummary[1].cashInHand > 0

\* C4: the month's total sales is the sum of amount over every sale row of
\* the month, and total expenses the sum of grand_total over every expense.
C4_TotalsSumEveryRow ==
    ReportsSummarised =>
        /\ monthlySummary[1].totalMonthlySales = TotalAmount(salesDataForMonth.data)
        /\ monthlySummary[1].monthlyTotalExpenses
              = TotalGrandTotal(expensesDataForMonth.data)


(***************************************************************************)
(* The dashboard's specification and its claims.                           *)
(***************************************************************************)
InitDashboard ==
    /\ today = 9
    /\ sales \in SeqsUpTo(DashboardSaleRows, MaxRows)
    /\ expense_transactions \in SeqsUpTo(DashboardExpenseRows, MaxRows - Len(sales))
    /\ expenses = <<>>
    /\ ReportsIdle
    /\ dash_version \in DashboardVersions
    /\ dash_pc = "idle"
    /\ dash_salesData = NoAnswer
    /\ dash_expensesData = NoAnswer
    /\ summary = <<>>
    /\ dash_loadingData = TRUE
    /\ displayName = "Guest"
    /\ isNewUser = FALSE
    /\ salesByCategory = <<>>
    /\ ChartIdle
    /\ FormsIdle
    /\ ImportIdle
    /\ SessionIdle
    /\ FiltersIdle
    /\ sale_values = SaleDefaults("sale.first", today)
    /\ expense_items = <<>>
    /\ route = "/"

NextDashboard ==
    \/ Dashboard_fetchFinancialData
    \/ Dashboard_profileAnswer
    \/ Dashboard_salesAnswer
    \/ Dashboard_expensesAnswer

SpecDashboard == InitDashboard /\ [][NextDashboard]_vars

\* C5: profit is total sales minus total expenses of the rows aggregated, and
\* it is negative exactly when the expenses exceed the sales.
C5_ProfitIsDifferenceUnclamped ==
    summary # <<>> =>
        /\ summary[1].profit
              = TotalAmount(dash_salesData.data) - TotalGrandTotal(dash_expensesData.data)
        /\ summary[1].profit < 0
              <=> TotalGrandTotal(dash_expensesData.data) > TotalAmount(dash_salesData.data)

\* A summary whose expenses exceed its sales.
C5_Witness ==
    /\ summary # <<>>
    /\ dash_salesData.ok /\ dash_salesData.data # <<>>
    /\ dash_expensesData.ok
    /\ summary[1].profit < 0

\* C8: a summary is only ever set by a fetch whose sales query and expenses
\* query both succeeded (dashboard totals and monthly overview).
C8_NoSummaryFromFailedFetch ==
    [][/\ summary' # summary => dash_salesData'.ok /\ dash_expensesData'.ok
       /\ monthlySummary' # monthlySummary =>
             salesDataForMonth'.ok /\ expensesDataForMonth'.ok]_vars


(***************************************************************************)
(* The chart's specification and its claims.                               *)
(***************************************************************************)
InitChart ==
    /\ today = 9
    /\ sales \in SeqsUpTo(ChartSaleRows, MaxRows)
    /\ expenses \in SeqsUpTo(ChartExpenseRows, MaxRows - Len(sales))
    /\ expense_transactions = <<>>
    /\ expense_items = <<>>
    /\ route = "/"
    /\ ReportsIdle
    /\ DashboardIdle
    /\ ChartIdle
    /\ FormsIdle
    /\ ImportIdle
    /\ SessionIdle
    /\ FiltersIdle
    /\ sale_values = SaleDefaults("sale.first", today)

NextChart ==
    \/ Chart_fetchChartData
    \/ Chart_salesAnswer
    \/ Chart_expensesAnswer
    \/ ClockTick

SpecChart == InitChart /\ [][NextChart]_vars

\* The series on display was built by a fetch whose two queries succeeded.
ChartBuilt == chart_pc = "done" /\ chart_salesData.ok /\ chart_expensesData.ok

\* The calendar day of bucket i: reference date - 6 for the first bucket, the
\* reference date for the last.
BucketDay(i) == referenceDate - 7 + i

SalesDatedOn(day) ==
    {i \in DOMAIN chart_salesData.data : chart_salesData.data[i].date = FormatISO(day)}
ExpensesDatedOn(day) ==
    {i \in DOMAIN chart_expensesData.data : chart_expensesData.data[i].date = FormatISO(day)}

WindowSum(rows, val) ==
    SumOverIndices({i \in DOMAIN rows :
                        /\ rows[i].user_id = CurrentUser
                        /\ \E k \in 1..7 : rows[i].date = FormatISO(BucketDay(k))},
                   val)

\* C7: bucket i holds exactly the amounts of the records dated on its day;
\* the buckets together hold the records dated inside the window, and a
\* record dated outside it adds to no bucket.
C7_BucketsHoldWindowRecords ==
    ChartBuilt =>
        /\ \A i \in 1..7 :
              /\ chartData[i].sales
                    = SumOverIndices(SalesDatedOn(BucketDay(i)),
                                     [k \in DOMAIN chart_salesData.data |->
                                         chart_salesData.data[k].amount])
              /\ chartData[i].expenses
                    = SumOverIndices(ExpensesDatedOn(BucketDay(i)),
                                     [k \in DOMAIN chart_expensesData.data |->
                                         chart_expensesData.data[k].total])
        /\ SumOverIndices(1..7, [i \in 1..7 |-> chartData[i].sales])
              = WindowSum(sales, [k \in DOMAIN sales |-> sales[k].amount])
        /\ SumOverIndices(1..7, [i \in 1..7 |-> chartData[i].expenses])
              = WindowSum(expenses, [k \in DOMAIN expenses |-> expenses[k].total])

\* A series built from a fetched sale dated inside the window and a fetched
\* sale dated outside it.
C7_Witness ==
    /\ ChartBuilt
    /\ \E k \in DOMAIN chart_salesData.data :
          \A i \in 1..7 : chart_salesData.data[k].date # FormatISO(BucketDay(i))
    /\ \E i \in 1..7 : chartData[i].sales > 0


(***************************************************************************)
(* The expense forms' specification and their claims.                      *)
(***************************************************************************)
InitForms ==
    /\ today = 9
    /\ sales = <<>>
    /\ expense_transactions = <<>>
    /\ ReportsIdle
    /\ DashboardIdle
    /\ ChartIdle
    /\ ImportIdle
    /\ SessionIdle
    /\ FiltersIdle
    /\ expense_items = <<>>
    /\ form_page \in {"add", "edit.first", "edit.second", "sale.first", "sale.second"}
    /\ route = (CASE form_page = "add" -> "/add-expense"
                  [] form_page \in {"edit.first", "edit.second"} -> "/edit-expense/:id"
                  [] OTHER -> "/add-sale")
    /\ sale_values = SaleDefaults(form_page, today)
    /\ IF form_page = "add"
       THEN expenses = <<>> /\ form_pc = "editing"
       ELSE IF form_page \in {"edit.first", "edit.second"}
       THEN expenses \in [1..1 -> StoredExpenseRows] /\ form_pc = "fetching"
       ELSE expenses = <<>> /\ form_pc = "editing"
    /\ add_items = <<DefaultItem>>
    /\ payment_mode = ""
    /\ edit_id = 1
    /\ edit_values = DefaultItem
    /\ edit_image = NoImage
    /\ request = <<>>
    /\ lastEvent = NoEvent

NextForms ==
    \/ \E i \in 1..MaxItems, v \in FormValues : AddExpense_change(i, "unit", v)
    \/ \E i \in 1..MaxItems, v \in PriceValues : AddExpense_change(i, "price_per_unit", v)
    \/ AddExpense_append
    \/ \E i \in 1..MaxItems : AddExpense_remove(i)
    \/ \E v \in {"Cash"} : Form_selectPaymentMode(v)
    \/ AddExpense_onSubmit
    \/ AddExpense_insertAnswer
    \/ EditExpense_fetchAnswer
    \/ \E v \in FormValues : EditExpense_change("unit", v)
    \/ \E v \in PriceValues : EditExpense_change("price_per_unit", v)
    \/ EditExpense_onSubmit
    \/ EditExpense_updateAnswer
    \/ \E ok \in BOOLEAN : EditExpense_uploadAnswer(ok)
    \/ \E file \in {<<>>, <<"new.png">>} : EditExpense_handleFileChange(file)
    \/ EditExpense_handleRemoveImage
    \/ \E v \in FormValues : Sale_changeAmount(v)
    \/ \E k \in 0..MaxTicks : Sale_selectDate(subDays(today, k))
    \/ Sale_onSubmit
    \/ Sale_insertAnswer

SpecForms == InitForms /\ [][NextForms]_vars

\* C9: every row the add-expense and edit-expense submits send to the store
\* has total = unit x price_per_unit.
C9_WrittenTotalIsProduct ==
    (request # <<>> /\ form_page \in {"add", "edit.first", "edit.second"}) =>
        \A i \in DOMAIN request[1].rows :
            request[1].rows[i].total
                = request[1].rows[i].unit * request[1].rows[i].price_per_unit

\* C10: a change of an item's unit or price_per_unit leaves that item's total
\* equal to unit x price_per_unit when both are positive, whatever the other
\* input holds from before, and leaves every other item's total as it was;
\* in the add form every item with positive unit and price has that total.
C10_TotalFollowsUnitAndPrice ==
    [][/\ (lastEvent'.kind = "change" /\ form_page = "add") =>
            LET i == lastEvent'.index IN
            /\ Len(add_items') = Len(add_items)
            /\ \A u, p \in 1..MaxAmount :
                 (add_items'[i].unit = ToString(u)
                    /\ add_items'[i].price_per_unit = ToString(p))
                 => add_items'[i].total = ToString(u * p)
            /\ \A j \in DOMAIN add_items : j # i => add_items'[j].total = add_items[j].total
       /\ \A u, p \in 1..MaxAmount :
            (/\ lastEvent'.kind = "change"
             /\ form_page \in {"edit.first", "edit.second"}
             /\ edit_values'.unit = ToString(u)
             /\ edit_values'.price_per_unit = ToString(p))
            => edit_values'.total = ToString(u * p)
       /\ \A j \in DOMAIN add_items' : \A u, p \in 1..MaxAmount :
            (add_items'[j].unit = ToString(u) /\ add_items'[j].price_per_unit = ToString(p))
            => add_items'[j].total = ToString(u * p)]_vars

\* The add form holds two items with positive unit and price, the second
\* changed last, and the edit form's loaded row has been changed.
C10_Witness ==
    \/ /\ form_page = "add" /\ Len(add_items) = 2
       /\ lastEvent = [kind |-> "change", index |-> 2]
       /\ add_items[1].total = ToString(MaxAmount)
       /\ add_items[2].total = ToString(MaxAmount * MaxAmount)
    \/ /\ form_page = "edit.second" /\ form_pc = "editing"
       /\ lastEvent.kind = "change"
       /\ edit_values.total = ToString(MaxAmount * MaxAmount)
       /\ expenses[1].total # expenses[1].unit * expenses[1].price_per_unit

\* C28: the add-expense form always holds at least one item, whatever items
\* were added and removed; a remove leaves at least one item; a submit that
\* is sent carries at least one row.
C28_ItemListNeverEmpty ==
    /\ form_page = "add" => Len(add_items) >= 1
    /\ (form_page = "add" /\ request # <<>>) => Len(request[1].rows) >= 1

\* An item was added and an item was removed: one item is left.
C28_Witness ==
    /\ form_page = "add"
    /\ lastEvent.kind = "remove"
    /\ Len(add_items) = 1

\* C29: when an expense with a stored bill image is submitted with no file
\* selected and the remove button never clicked, the update writes the
\* stored bill_image_url, whatever file-input changes came before; and when
\* the upload of a selected file fails, no update is sent.
C29_StoredImageKept ==
    [][/\ (/\ form_page \in {"edit.first", "edit.second"}
           /\ lastEvent'.kind = "submit"
           /\ edit_image.selectedFile = <<>>
           /\ ~edit_image.removed
           /\ ExpenseById(edit_id, CurrentUser) # <<>>)
          => request'[1].rows[1].bill_image_url
                = ExpenseById(edit_id, CurrentUser)[1].bill_image_url
       /\ (form_pc = "uploading" /\ lastEvent'.kind = "failed") => request' = <<>>]_vars

\* The texts of a positive number.
PositiveNumerals == {ToString(n) : n \in 1..(MaxAmount * MaxAmount)}

\* The numeric fields of the form that is open, by the path of their error:
\* the field's text.
NumericFields ==
    CASE form_page = "add" ->
            [path \in (DOMAIN add_items) \X {"unit", "price_per_unit", "total"} |->
                add_items[path[1]][path[2]]]
      [] form_page \in {"edit.first", "edit.second"} ->
            [path \in {0} \X {"unit", "price_per_unit", "total"} |-> edit_values[path[2]]]
      [] OTHER -> [path \in {<<0, "amount">>} |-> sale_values.amount]

\* C13: a submit of the sale form or of an expense form with an amount, unit,
\* price or total that is zero, negative, empty or no number is rejected with
\* an error on that field, sends no insert or update and leaves the store as
\* it is; a submit that is sent carries, for every numeric field, the
\* positive number that the field's text states.
C13_InvalidNumbersAreRejected ==
    [][lastEvent'.kind \in {"submit", "rejected"} =>
          LET bad == {path \in DOMAIN NumericFields :
                        NumericFields[path] \notin PositiveNumerals}
          IN  IF bad # {}
              THEN /\ lastEvent'.kind = "rejected"
                   /\ bad \subseteq lastEvent'.errors
                   /\ request' = <<>>
                   /\ UNCHANGED <<sales, expenses, form_pc>>
              ELSE lastEvent'.kind = "submit" =>
                     /\ Len(request') = 1
                     /\ \A path \in DOMAIN NumericFields :
                          LET row == request'[1].rows[IF path[1] = 0 THEN 1 ELSE path[1]]
                          IN  /\ row[path[2]] > 0
                              /\ ToString(row[path[2]]) = NumericFields[path]]_vars

\* A submit of the add form was rejected for its second item's negative unit
\* alone; a submit of the second sale form was rejected for its empty amount.
C13_Witness ==
    \/ /\ form_page = "add" /\ Len(add_items) = 2
       /\ add_items[1].total = ToString(MaxAmount)
       /\ add_items[2].unit = "-1"
       /\ payment_mode = "Cash"
       /\ lastEvent.kind = "rejected"
       /\ <<2, "unit">> \in lastEvent.errors
       /\ request = <<>>
    \/ /\ form_page = "sale.second"
       /\ sale_values.amount = ""
       /\ payment_mode = "Cash"
       /\ lastEvent.kind = "rejected"
       /\ lastEvent.errors = {<<0, "amount">>}
       /\ Len(sales) = 1

\* C20: the row the add-sale submit sends to the store carries, as its date,
\* the selected calendar day formatted yyyy-MM-dd.
C20_SaleDateIsFormattedDay ==
    (request # <<>> /\ form_page \in {"sale.first", "sale.second"}) =>
        request[1].rows[1].date = FormatISO(sale_values.date)

(***************************************************************************)
(* The pages that show summary figures, over a store that holds rows of    *)
(* two users: the dashboard with its chart at "/", the reports at          *)
(* "/reports".                                                             *)
(***************************************************************************)
\* Rows of the three tables: the current user's, and one kind of row of
\* another user in each table.
PageSaleRows ==
    {r \in [user_id : Users, date : {FormatISO(9)}, amount : Amounts,
            payment_type : {"Cash"}, category : {"A", "B"}] :
        r.user_id = CurrentUser \/ (r.amount = MaxAmount /\ r.category = "A")}

PageExpenseTransactionRows ==
    {r \in [user_id : Users, date : {FormatISO(9)}, grand_total : Amounts,
            payment_mode : {"Cash"}] :
        r.user_id = CurrentUser \/ r.grand_total = MaxAmount}

PageExpenseRows ==
    {r \in [user_id : Users, date : {FormatISO(9)}, total : Amounts] :
        r.user_id = CurrentUser \/ r.total = MaxAmount}

InitPages ==
    /\ today = 9
    /\ route \in {"/", "/reports"}
    /\ sales \in {WithIds(rows) : rows \in SeqsUpTo(PageSaleRows, MaxRows)}
    /\ expense_transactions \in
          {WithIds(rows) :
              rows \in SeqsUpTo(PageExpenseTransactionRows, MaxRows - Len(sales))}
    /\ expenses \in SeqsUpTo(PageExpenseRows,
                             MaxRows - Len(sales) - Len(expense_transactions))
    /\ expense_items = <<>>
    /\ ReportsIdle
    /\ dash_version \in DashboardVersions \cup {"Dashboard.second"}
    /\ dash_pc = "idle"
    /\ dash_salesData = NoAnswer
    /\ dash_expensesData = NoAnswer
    /\ summary = <<>>
    /\ dash_loadingData = TRUE
    /\ displayName = "Guest"
    /\ isNewUser = FALSE
    /\ salesByCategory = <<>>
    /\ ChartIdle
    /\ FormsIdle
    /\ ImportIdle
    /\ SessionIdle
    /\ FiltersIdle
    /\ sale_values = SaleDefaults("sale.first", today)

NextPages ==
    \/ NextDashboard
    \/ NextChart
    \/ NextReports

SpecPages == InitPages /\ [][NextPages]_vars

\* The rows of a table that belong to the current user.
OwnRows(rows) == SelectSeq(rows, LAMBDA r : r.user_id = CurrentUser)

\* The permutations of 1..n.
Permutations1(n) == {p \in [1..n -> 1..n] : \A i, j \in 1..n : p[i] = p[j] => i = j}

\* The dashboard shows figures of two successful queries.
DashboardSummarised ==
    /\ dash_pc = "done"
    /\ dash_salesData.ok
    /\ dash_expensesData.ok

\* C14: every summary figure shown to the current user is the sum over the
\* current user's rows alone: the dashboard's totals, the reports' monthly
\* totals and table, the chart's daily series.
C14_FiguresFromOwnRowsOnly ==
    /\ DashboardSummarised =>
          /\ summary # <<>>
          /\ summary[1].totalSales = TotalAmount(OwnRows(sales))
          /\ summary[1].totalExpenses
                = (IF dash_version = "Dashboard.second"
                   THEN SumOverIndices(DOMAIN OwnRows(expenses),
                                       [i \in DOMAIN OwnRows(expenses) |->
                                           OwnRows(expenses)[i].total])
                   ELSE TotalGrandTotal(OwnRows(expense_transactions)))
    /\ ReportsSummarised =>
          /\ monthlySummary[1].totalMonthlySales = TotalAmount(OwnRows(sales))
          /\ monthlySummary[1].monthlyTotalExpenses
                = TotalGrandTotal(OwnRows(expense_transactions))
    /\ \A k \in DOMAIN allTransactions :
          LET table == IF allTransactions[k].type = "sale"
                       THEN sales ELSE expense_transactions
          IN  \E i \in DOMAIN table :
                /\ table[i].id = allTransactions[k].id
                /\ table[i].user_id = CurrentUser
    /\ (chart_pc = "done" /\ chart_salesData.ok /\ chart_expensesData.ok) =>
          /\ SumOverIndices(DOMAIN chartData, [i \in DOMAIN chartData |-> chartData[i].sales])
                = TotalAmount(OwnRows(sales))
          /\ SumOverIndices(DOMAIN chartData,
                            [i \in DOMAIN chartData |-> chartData[i].expenses])
                = SumOverIndices(DOMAIN OwnRows(expenses),
                                 [i \in DOMAIN OwnRows(expenses) |->
                                     OwnRows(expenses)[i].total])

\* Figures are on display while the store holds a row of the current user
\* and a row of another user in the table they are summed from.
C14_Witness ==
    /\ \E i, j \in DOMAIN sales :
          sales[i].user_id = CurrentUser /\ sales[j].user_id # CurrentUser
    /\ \/ DashboardSummarised /\ chart_pc = "done" /\ chart_salesData.ok
             /\ chart_expensesData.ok
       \/ ReportsSummarised /\ allTransactions # <<>>

C19_EmptyInputGivesZeros ==
    /\ (DashboardSummarised /\ dash_salesData.data = <<>> /\ dash_expensesData.data = <<>>)
          => /\ summary = <<[totalSales |-> 0, totalExpenses |-> 0, profit |-> 0]>>
             /\ salesByCategory = <<>>
    /\ (ReportsSummarised /\ salesDataForMonth.data = <<>>
            /\ expensesDataForMonth.data = <<>>)
          => /\ monthlySummary[1].totalMonthlySales = 0
             /\ monthlySummary[1].monthlyTotalExpenses = 0
             /\ monthlySummary[1].cashInHand = 0
             /\ monthlySummary[1].bankBalance = 0

\* Figures of a user without rows are on display while the store holds
\* another user's rows.
C19_Witness ==
    /\ sales # <<>>
    /\ \/ /\ DashboardSummarised /\ dash_version = "Dashboard.second"
          /\ dash_salesData.data = <<>> /\ dash_expensesData.data = <<>>
       \/ /\ ReportsSummarised /\ rep_pc = "done"
          /\ salesDataForMonth.data = <<>> /\ expensesDataForMonth.data = <<>>

\* C23: once a dashboard fetch has ended, with the summary set or on a query
\* error, loadingData is false: the loading view is gone.
C23_LoadingEndsWithFetch ==
    dash_pc = "done" => ~dash_loadingData

(***************************************************************************)
(* The import's specification and its claim.                               *)
(***************************************************************************)
InitImport ==
    /\ today = 9
    /\ sales = <<>>
    /\ expense_transactions = <<>>
    /\ expenses = <<>>
    /\ expense_items = <<>>
    /\ route = "/profile"
    /\ ReportsIdle
    /\ DashboardIdle
    /\ ChartIdle
    /\ FormsIdle
    /\ ImportIdle
    /\ SessionIdle
    /\ FiltersIdle
    /\ sale_values = SaleDefaults("sale.first", today)

NextImport ==
    \/ Import_handleImportData
    \/ \E k \in DOMAIN ImportStages : Import_insertAnswer(ImportStages[k], k)

SpecImport == InitImport /\ [][NextImport]_vars

\* The items stored for transaction id.
ItemsStoredFor(id) == {i \in DOMAIN expense_items : expense_items[i].transaction_id = id}

\* C11: after a successful import every stored transaction's grand_total is
\* the sum of the line totals of the items stored for it, and the items
\* stored for it are the items the file holds for it.
C11_GrandTotalIsSumOfStoredItems ==
    (import_pc = "done" /\ import_toast = "success") =>
        \A t \in DOMAIN expense_transactions :
            /\ expense_transactions[t].grand_total
                  = SumOverIndices(ItemsStoredFor(expense_transactions[t].id),
                                   [i \in DOMAIN expense_items |-> expense_items[i].total])
            /\ Cardinality(ItemsStoredFor(expense_transactions[t].id))
                  = Cardinality({i \in DOMAIN importData.expenseItems :
                        importData.expenseItems[i].transaction_id
                            = expense_transactions[t].id})

\* C26: the import writes the sales before the expense transactions and
\* these before the expense items; a failed insert ends the import with the
\* error shown and nothing written, nothing is written after the end, success
\* is never shown after an error, and whenever the import has ended the
\* loading toast is dismissed and the file input is empty.
C26_ImportOrderAndAbort ==
    [][/\ sales' # sales => (expense_transactions = <<>> /\ expense_items = <<>>)
       /\ expense_transactions' # expense_transactions => expense_items = <<>>
       /\ import_toast' = "error" =>
             /\ import_pc' = "done"
             /\ UNCHANGED <<sales, expense_transactions, expense_items>>
       /\ import_pc = "done" =>
             UNCHANGED <<sales, expense_transactions, expense_items, import_toast>>
       /\ import_toast = "error" => import_toast' = "error"
       /\ import_pc' = "done" =>
             /\ import_toast' \in {"success", "error"}
             /\ ~import_ui'.loadingToast
             /\ import_ui'.fileInput = ""
       /\ import_toast' = "success" =>
             /\ Len(sales') = Len(importData'.sales)
             /\ Len(expense_transactions') = Len(importData'.expenseTransactions)
             /\ Len(expense_items') = Len(importData'.expenseItems)]_vars

\* The insert of the expense transactions failed after the sales were
\* written: the import has ended with the error, the file's items unwritten.
C26_Witness ==
    /\ import_pc = "done"
    /\ import_toast = "error"
    /\ sales # <<>>
    /\ importData.expenseTransactions # <<>> /\ expense_transactions = <<>>
    /\ importData.expenseItems # <<>> /\ expense_items = <<>>
    /\ import_ui = [loadingToast |-> FALSE, fileInput |-> ""]

\* C27: after a successful import every row it wrote, in sales, expense
\* transactions and expense items, has the importing user's user_id.
C27_ImportedRowsBelongToUser ==
    (import_pc = "done" /\ import_toast = "success") =>
        /\ \A i \in DOMAIN sales : sales[i].user_id = CurrentUser
        /\ \A i \in DOMAIN expense_transactions :
              expense_transactions[i].user_id = CurrentUser
        /\ \A i \in DOMAIN expense_items : expense_items[i].user_id = CurrentUser

(***************************************************************************)
(* The reports page's table with its items, type filter and delete, and    *)
(* the claims about them.                                                  *)
(***************************************************************************)
InitReportsTable ==
    /\ today = 9
    /\ sales \in SeqsUpTo([id : {1}, user_id : {CurrentUser}, date : {FormatISO(9)},
                           amount : {1}, payment_type : {"Cash"}], 1)
    /\ expense_transactions \in
          {t \in SeqsUpTo([id : {1, 2}, user_id : {CurrentUser}, date : {FormatISO(9)},
                           grand_total : Amounts, payment_mode : {"Cash"}], 2) :
              \A i, j \in DOMAIN t : i < j => t[i].id < t[j].id}
    /\ expense_items \in SeqsUpTo([transaction_id : {1, 2}, unit : {1}, price_per_unit : {1},
                                   total : {1}], MaxItems)
    /\ expenses = <<>>
    /\ route = "/reports"
    /\ ReportsIdle
    /\ DashboardIdle
    /\ ChartIdle
    /\ FormsIdle
    /\ ImportIdle
    /\ SessionIdle
    /\ FiltersIdle
    /\ sale_values = SaleDefaults("sale.first", today)

NextReportsTable ==
    \/ NextReports
    \/ \E v \in {"all", "sale", "expense"} : Reports_setTransactionTypeFilter(v)
    \/ \E k \in 1..(MaxRows + 1) : Reports_handleDelete(k)
    \/ Reports_deleteAnswer

SpecReportsTable == InitReportsTable /\ [][NextReportsTable]_vars

\* C12: an expense shown in the table with its items shows as its amount the
\* sum of unit x price_per_unit over those items.
C12_AmountRecomputedFromItems ==
    rep_pc = "done" =>
        \A k \in DOMAIN allTransactions :
            (allTransactions[k].type = "expense" /\ allTransactions[k].items # <<>>) =>
                allTransactions[k].amount
                    = SumOverIndices(DOMAIN allTransactions[k].items,
                        [i \in DOMAIN allTransactions[k].items |->
                            allTransactions[k].items[i].unit
                                * allTransactions[k].items[i].price_per_unit])

\* C15: a successful delete of an expense transaction leaves no item in the
\* store that references it.
C15_DeleteRemovesItems ==
    [][(/\ rep_deleting # <<>>
        /\ rep_deleting[1].type = "expense"
        /\ expense_transactions' # expense_transactions) =>
            \A i \in DOMAIN expense_items' :
                expense_items'[i].transaction_id # rep_deleting[1].id]_vars

\* C16: while the summary and the table are on display, built from queries
\* that all succeeded, the summary's totals are the totals of the table's
\* rows.
C16_SummaryAndTableAgree ==
    (/\ rep_pc = "done" /\ ~rep_loadingData /\ monthlySummary # <<>>
     /\ salesDataForMonth.ok /\ expensesDataForMonth.ok
     /\ salesDataForTable.ok /\ transactionsDataForTable.ok) =>
        /\ monthlySummary[1].totalMonthlySales
              = SumOverIndices({k \in DOMAIN allTransactions : allTransactions[k].type = "sale"},
                               [k \in DOMAIN allTransactions |-> allTransactions[k].amount])
        /\ monthlySummary[1].monthlyTotalExpenses
              = SumOverIndices({k \in DOMAIN allTransactions :
                                    allTransactions[k].type = "expense"},
                               [k \in DOMAIN allTransactions |-> allTransactions[k].amount])


(***************************************************************************)
(* The application from its start: the provider fetches the session, the   *)
(* guard is mounted at '/' or (onboarding version) at '/onboarding', users *)
(* sign in and out, and the onboarding page is completed.                  *)
(***************************************************************************)
SessionValues == {<<>>} \cup {<<u>> : u \in Users}

InitSession ==
    /\ today = 9
    /\ sales = <<>>
    /\ expense_transactions = <<>>
    /\ expenses = <<>>
    /\ expense_items = <<>>
    /\ ReportsIdle
    /\ DashboardIdle
    /\ ChartIdle
    /\ FormsIdle
    /\ ImportIdle
    /\ FiltersIdle
    /\ sale_values = SaleDefaults("sale.first", today)
    /\ auth_session \in SessionValues
    /\ session = <<>>
    /\ user = <<>>
    /\ profile = <<>>
    /\ isLoading = TRUE
    /\ fetchSessionAndProfile = [pc |-> "getSession", user |-> <<>>]
    /\ profileRequests = {}
    /\ profiles \in [Users -> {"", OnboardingName}]
    /\ guard_version \in GuardVersions
    /\ onboardingCompleted = FALSE
    /\ checkingOnboarding = TRUE
    /\ guard_deps = <<>>
    /\ userPreferences \in {<<>>, <<[onboardingCompleted |-> TRUE]>>}
    /\ handleComplete = [pc |-> "idle", user |-> <<>>]
    /\ route \in IF guard_version = "ProtectedRoute.tsx" THEN {"/"} ELSE {"/", "/onboarding"}

NextSession ==
    \/ Session_getSessionAnswer
    \/ Session_profileAnswer
    \/ \E newSession \in SessionValues : Session_onAuthStateChange(newSession)
    \/ \E u \in Users : Session_authProfileAnswer(u)
    \/ ProtectedRoute_checkOnboardingStatus
    \/ ProtectedRoute_Navigate
    \/ Login_navigate
    \/ Onboarding_handleComplete
    \/ Onboarding_getUserAnswer
    \/ \E ok \in BOOLEAN : Onboarding_updateAnswer(ok)

SpecSession == InitSession /\ [][NextSession]_vars

\* C24: under every interleaving of the initial session and profile fetch,
\* the auth state change callbacks and the profile answers, a non-null
\* profile has the id of the current user, and the profile is null when the
\* user is null.
C24_ProfileBelongsToUser ==
    profile # <<>> => (user # <<>> /\ profile[1].id = user[1])

\* C21 as stated: the mounted guard renders the child route only when
\* isLoading is false and a session exists, always redirects to /login when
\* isLoading is false and no session exists, and renders neither while
\* isLoading is true.
C21_GuardAsStated ==
    route # "/login" =>
        /\ GuardRender = "Outlet" => (~isLoading /\ session # <<>>)
        /\ (~isLoading /\ session = <<>>) => GuardRender = "/login"
        /\ isLoading => GuardRender = "Loading"

\* C21, amended: the mounted guard renders the child route only when
\* isLoading is false and a session exists; when isLoading is false and no
\* session exists it redirects to /login, except that the guard with the
\* onboarding check shows the loading view until its effect has cleared
\* checkingOnboarding; while isLoading is true it renders the loading view.
C21_GuardRendersBySession ==
    route # "/login" =>
        /\ GuardRender = "Outlet" => (~isLoading /\ session # <<>>)
        /\ (~isLoading /\ session = <<>>) =>
              GuardRender = IF guard_version = "ProtectedRoute.onboarding"
                               /\ checkingOnboarding
                            THEN "Loading" ELSE "/login"
        /\ isLoading => GuardRender = "Loading"

\* C21 witness: the guard with the onboarding check, its effect run, with
\* isLoading false and no session, renders the redirect to /login.
C21_Witness ==
    /\ route # "/login"
    /\ guard_version = "ProtectedRoute.onboarding"
    /\ ~isLoading /\ session = <<>> /\ ~checkingOnboarding
    /\ GuardRender = "/login"

\* C22: when Onboarding.handleComplete succeeds (profile updated, the
\* preferences stored with onboardingCompleted = true) and navigates to '/',
\* the guard, with a session loaded, no provider request in flight and its
\* effect up to date, renders the child route: the user is not redirected
\* back to /onboarding.
C22_CompletedOnboardingReachesDashboard ==
    [][(/\ handleComplete.pc = "update"
        /\ fetchSessionAndProfile.pc = "done" /\ profileRequests = {}
        /\ route = "/onboarding"
        /\ route' = "/"
        /\ userPreferences' = <<[onboardingCompleted |-> TRUE]>>
        /\ ~isLoading' /\ session' # <<>>
        /\ guard_deps' = <<GuardDeps>>')
          => GuardRender' = "Outlet"]_vars


(***************************************************************************)
(* The reports page of Reports.tsx, mounted with its first fetch started,  *)
(* while the user changes the payment type and the search term.  The       *)
(* tables do not change.                                                   *)
(***************************************************************************)
FilterSaleRows ==
    {r \in [user_id : {CurrentUser}, date : {FormatISO(9)}, amount : {1},
            payment_type : {"Cash", "Gpay"}, item : {"Tea", "Rice"},
            category : {"Food"}] :
        r.payment_type = "Gpay" => r.item = "Tea"}

FilterExpenseRows ==
    {r \in [user_id : {CurrentUser}, date : {FormatISO(8), FormatISO(9)}, total : {1},
            payment_mode : {"Cash"}, item_name : {"Tea", "Rice"}] :
        r.item_name = "Tea" <=> r.date = FormatISO(9)}

InitReportFilters ==
    /\ today = 9
    /\ sales \in {WithIds(rows) : rows \in SeqsUpTo(FilterSaleRows, MaxRows)}
    /\ expense_transactions = <<>>
    /\ expenses \in {WithIds(rows) : rows \in SeqsUpTo(FilterExpenseRows, MaxRows - Len(sales))}
    /\ expense_items = <<>>
    /\ route = "/reports"
    /\ ReportsIdle
    /\ DashboardIdle
    /\ ChartIdle
    /\ FormsIdle
    /\ ImportIdle
    /\ SessionIdle
    /\ sale_values = SaleDefaults("sale.first", today)
    /\ salePaymentTypeFilter = "all"
    /\ searchTerm = ""
    /\ debouncedSearchTerm = ""
    /\ fetchReports = <<[pc |-> "sales", salePaymentTypeFilter |-> "all",
                         debouncedSearchTerm |-> ""]>>
    /\ reports_sales = <<>>
    /\ reports_expenses = <<>>
    /\ currentMonthFilteredExpenseTotal = 0
    /\ reports_loadingData = TRUE
    /\ reports_errorShown = FALSE

NextReportFilters ==
    \/ \E value \in FilterValues : Reports_setSalePaymentTypeFilter(value)
    \/ \E value \in SearchTerms : Reports_setSearchTerm(value)
    \/ Reports_debounceTimeout
    \/ \E i \in 1..MaxFetches, ok \in BOOLEAN : Reports_filteredSalesAnswer(i, ok)
    \/ \E i \in 1..MaxFetches, ok \in BOOLEAN : Reports_filteredExpensesAnswer(i, ok)

SpecReportFilters == InitReportFilters /\ [][NextReportFilters]_vars

\* C25: once every fetch in flight has completed (none of them with an
\* error), the displayed lists are the result of the queries for the
\* currently selected filters: an older response does not overwrite a newer.
C25_ListsMatchSelectedFilters ==
    (fetchReports = <<>> /\ ~reports_errorShown) =>
        /\ reports_sales =
               FilteredSales(CurrentUser, salePaymentTypeFilter, debouncedSearchTerm)
        /\ reports_expenses = FilteredExpenses(CurrentUser, debouncedSearchTerm)

============================================================================
